---- MODULE Spec2Model ----
(***************************************************************************)
(* Model of the chat front end of EquityPulse (ChatWidget.tsx): the        *)
(* reasoning-trace reconstruction done by handleSend's read loop, and the  *)
(* session operations (loadSessionMessages, handleNewChat, voice input)    *)
(* that run interleaved with it on the browser's event loop.               *)
(*                                                                         *)
(* Text is a sequence of one-character strings, so that a response body    *)
(* can be cut anywhere.  A JSON event is the miniature object              *)
(* "{" <type code> <payload> "}"; anything else does not parse.            *)
(***************************************************************************)
EXTENDS Integers, Sequences, FiniteSets, TLC

\* ------------------------------------------------------------------ bounds
MaxSize == 3           \* most events of one stream that make its message grow
MaxRecs == 2           \* most records in one response body that is cut freely
MaxTurns == 2          \* handleSend invocations in one run
MaxSwitches == 1       \* loadSessionMessages and handleNewChat invocations in one run
MaxStored == 2         \* most steps of a stored assistant message
MaxEnc == 2            \* most JSON encodings laid around a payload
MaxCalls == 2          \* most calls of safeParseJSON on one payload
MaxLogs == 2           \* most messages one EventSource delivers
MaxVisits == 2         \* most searches App sends to the backend
MaxPolls == 3          \* most getAnalysisResult requests the Dashboard issues
MaxUploads == 2        \* most calls of uploadFiles
MaxFiles == 3          \* most files of one selection or paste
MaxTakes == 3          \* most recordings the user asks for
MaxWords == 2          \* most words of a log line that is plain text

\* ------------------------------------------------------------- wire format
DataPrefix == <<"d", "a", "t", "a", ":", " ">>
NL == "\n"
PayloadChars == {"a", "b"}
EventTypes == {"token", "thought", "tool_start", "tool_end", "plan",
               "query_rewrite", "image_analysis", "execution", "other"}
TraceTypes == {"query_rewrite", "image_analysis", "plan", "execution"}
TypeCode == [token |-> "k", thought |-> "h", tool_start |-> "s",
             tool_end |-> "e", plan |-> "p", query_rewrite |-> "q",
             image_analysis |-> "i", execution |-> "x", other |-> "u"]
TypeCodes == {TypeCode[t] : t \in EventTypes}

\* an event as the backend means it, and the record that carries it
Events ==
    [type : {"token", "thought"}, p : PayloadChars]
        \cup [type : EventTypes \ {"token", "thought"}, p : {"a"}]
Encode(e) == DataPrefix \o <<"{", TypeCode[e.type], e.p, "}">> \o <<NL>>
\* the line "data: not-json"
BadRecord == DataPrefix \o <<"~">> \o <<NL>>

\* ------------------------------------------------------------ text helpers
IsPrefix(s, t) == Len(s) <= Len(t) /\ SubSeq(t, 1, Len(s)) = s

\* String.prototype.split('\n'): n separators give n+1 pieces
RECURSIVE SplitFrom(_, _)
SplitFrom(chunk, cur) ==
    IF chunk = <<>> THEN <<cur>>
    ELSE IF Head(chunk) = NL THEN <<cur>> \o SplitFrom(Tail(chunk), <<>>)
    ELSE SplitFrom(Tail(chunk), Append(cur, Head(chunk)))
Split(chunk) == SplitFrom(chunk, <<>>)

StartsWithData(line) ==
    Len(line) >= Len(DataPrefix) /\ SubSeq(line, 1, Len(DataPrefix)) = DataPrefix
Slice6(line) == SubSeq(line, Len(DataPrefix) + 1, Len(line))

\* JSON.parse on the miniature grammar: ok, or throws
JSONParse(s) ==
    IF /\ Len(s) = 4
       /\ s[1] = "{"
       /\ s[4] = "}"
       /\ s[2] \in TypeCodes
       /\ s[3] \in PayloadChars
    THEN [ok |-> TRUE, type |-> CHOOSE t \in EventTypes : TypeCode[t] = s[2], p |-> s[3]]
    ELSE [ok |-> FALSE, type |-> "other", p |-> "a"]

\* ----------------------------------------------------------- safeParseJSON
\* A JavaScript value is [k, s]: k is its kind and s its text: the characters
\* of a string, the source text of an object, an array or a number.
Quote == "\""
Backslash == "\\"
Space == " "
Val(k, s) == [k |-> k, s |-> s]
Null == Val("null", <<>>)
Undefined == Val("undefined", <<>>)
\* what a throwing JSON.parse leaves its caller with
Thrown == Val("thrown", <<>>)

\* String.prototype.trim
RECURSIVE TrimStart(_)
TrimStart(s) == IF s # <<>> /\ Head(s) = Space THEN TrimStart(Tail(s)) ELSE s
RECURSIVE TrimEnd(_)
TrimEnd(s) ==
    IF s # <<>> /\ s[Len(s)] = Space THEN TrimEnd(SubSeq(s, 1, Len(s) - 1)) ELSE s
Trim(s) == TrimEnd(TrimStart(s))

\* the inside of a JSON string literal: a backslash escapes a quote or a
\* backslash, and no quote stands alone
RECURSIVE ValidBody(_)
ValidBody(b) ==
    IF b = <<>> THEN TRUE
    ELSE IF Head(b) = Backslash
         THEN Len(b) >= 2 /\ b[2] \in {Quote, Backslash} /\ ValidBody(SubSeq(b, 3, Len(b)))
         ELSE Head(b) # Quote /\ ValidBody(Tail(b))
RECURSIVE Unescape(_)
Unescape(b) ==
    IF b = <<>> THEN <<>>
    ELSE IF Head(b) = Backslash THEN <<b[2]>> \o Unescape(SubSeq(b, 3, Len(b)))
    ELSE <<Head(b)>> \o Unescape(Tail(b))
RECURSIVE Escape(_)
Escape(s) ==
    IF s = <<>> THEN <<>>
    ELSE (IF Head(s) \in {Quote, Backslash} THEN <<Backslash, Head(s)>> ELSE <<Head(s)>>)
            \o Escape(Tail(s))

\* JSON.parse of a text: objects are {} and the event objects, arrays are [],
\* numbers are one digit; surrounding blanks are allowed
Digits == {"5"}
NullText == <<"n", "u", "l", "l">>
JSONParseText(text) ==
    LET t == Trim(text) IN
    IF t = <<"{", "}">> \/ JSONParse(t).ok THEN Val("object", t)
    ELSE IF t = <<"[", "]">> THEN Val("array", t)
    ELSE IF Len(t) = 1 /\ t[1] \in Digits THEN Val("number", t)
    ELSE IF t = NullText THEN Null
    ELSE IF /\ Len(t) >= 2
            /\ t[1] = Quote
            /\ t[Len(t)] = Quote
            /\ ValidBody(SubSeq(t, 2, Len(t) - 1))
         THEN Val("string", Unescape(SubSeq(t, 2, Len(t) - 1)))
    ELSE Thrown

\* JSON.parse(input) first turns an input that is no string into one
ToText(v) ==
    IF v.k = "null" THEN NullText
    ELSE IF v.k = "undefined" THEN <<"u", "n", "d", "e", "f", "i", "n", "e", "d">>
    ELSE v.s
\* JSON.stringify
Stringify(v) ==
    IF v.k = "string" THEN <<Quote>> \o Escape(v.s) \o <<Quote>>
    ELSE IF v.k = "null" THEN NullText
    ELSE v.s

LooksLikeJSON(s) ==
    LET t == Trim(s) IN t # <<>> /\ t[1] \in {"{", "["}

\* a slip: the parse failure is not caught
RECURSIVE safeParseJSON_NoCatch(_)
safeParseJSON_NoCatch(input) ==
    IF input.k \in {"object", "array"} THEN input
    ELSE LET parsed == JSONParseText(ToText(input)) IN
         IF parsed = Thrown THEN Thrown
         ELSE IF parsed.k = "string" /\ LooksLikeJSON(parsed.s)
              THEN safeParseJSON_NoCatch(parsed)
         ELSE parsed

\* lines 45-57 (and the copy in ToolOutputRenderer)
RECURSIVE safeParseJSON(_)
safeParseJSON(input) ==
    IF input.k \in {"object", "array"} THEN input
    ELSE LET parsed == JSONParseText(ToText(input)) IN
         IF parsed = Thrown THEN input
         ELSE IF parsed.k = "string" /\ LooksLikeJSON(parsed.s) THEN safeParseJSON(parsed)
         ELSE parsed

\* --------------------------------------------------------- formatToolInput
\* a tool_start payload stands for a (tool, input) pair of the backend
ToolOf(p) == IF p = "a" THEN "web_search" ELSE "get_financials"
InputOf(p) ==
    IF p = "a" THEN [kind |-> "object", query |-> "NVDA", ticker |-> "", url |-> ""]
    ELSE [kind |-> "object", query |-> "", ticker |-> "NVDA", url |-> ""]
\* an input is a non-empty string (kind "string", the text in query), a
\* falsy value such as null, undefined or '' (kind "empty"), or an object
\* with some of the keys query, ticker, url ("" for a key it lacks)
ToolNames == {"web_search", "get_financials"}
PlanText == "{\"plan\":[\"x\"]}"
IntentText == "{\"intent\":\"y\"}"
ObjectInput(q, t, u) == [kind |-> "object", query |-> q, ticker |-> t, url |-> u]
StringInput(text) == [kind |-> "string", query |-> text, ticker |-> "", url |-> ""]
EmptyInput == [kind |-> "empty", query |-> "", ticker |-> "", url |-> ""]
ToolInputs ==
    {ObjectInput("NVDA", "", ""), ObjectInput("", "NVDA", ""), ObjectInput("", "", "u"),
     ObjectInput("NVDA", "NVDA", ""), ObjectInput("", "", ""),
     StringInput("NVDA"), StringInput(PlanText), StringInput(IntentText), EmptyInput}

\* lines 338-380
IsSearchTool(tool) == tool \in {"web_search", "search_news"}
formatToolInput(tool, input) ==
    IF input.kind = "string"
    THEN IF input.query = PlanText THEN <<"**Plan:**\n", "- ", "x">>
         ELSE IF input.query = IntentText THEN <<"**Intent:** ", "y", "\n">>
         ELSE <<input.query>>
    ELSE IF input.kind = "empty" THEN <<>>
    ELSE IF IsSearchTool(tool) /\ input.query # ""
         THEN <<"Searching for: ", Quote, input.query, Quote>>
    ELSE IF input.ticker # "" THEN <<"Analyzing ticker: ", input.ticker>>
    ELSE IF input.url # "" THEN <<"Reading URL: ", input.url>>
    ELSE IF input.query # "" THEN <<"query: ", input.query>>
    ELSE <<>>

\* ------------------------------------------------------------- trace steps
NoOutput == "-"
Step(type, content, status, toolName, toolOutput) ==
    [type |-> type, content |-> content, status |-> status,
     toolName |-> toolName, toolOutput |-> toolOutput]

Last(s) == s[Len(s)]
SetLast(s, x) == [s EXCEPT ![Len(s)] = x]

\* a slip: a token completes every running step, not only the last
TokenUpdate_CloseAll(m, ac) ==
    [m EXCEPT !.content = ac,
              !.thoughts = [j \in 1..Len(@) |-> [@[j] EXCEPT !.status = "completed"]]]

\* a slip: the message shows the latest token instead of the accumulated text
TokenUpdate_LatestOnly(m, ac) ==
    LET newThoughts ==
            IF Len(m.thoughts) > 0 /\ Last(m.thoughts).status = "running"
            THEN SetLast(m.thoughts, [Last(m.thoughts) EXCEPT !.status = "completed"])
            ELSE m.thoughts
    IN [m EXCEPT !.content = <<Last(ac)>>, !.thoughts = newThoughts]

\* lines 605-626: data.type === 'token'; ac is assistantContent after +=
TokenUpdate(m, ac) ==
    LET newThoughts ==
            IF Len(m.thoughts) > 0 /\ Last(m.thoughts).status = "running"
            THEN SetLast(m.thoughts, [Last(m.thoughts) EXCEPT !.status = "completed"])
            ELSE m.thoughts
    IN [m EXCEPT !.content = ac, !.thoughts = newThoughts]

\* a slip: a thought event reopens a last thought step that was completed
ThoughtUpdate_Reopen(m, data) ==
    LET thoughts == m.thoughts IN
    IF Len(thoughts) > 0 /\ Last(thoughts).type = "thought"
    THEN [m EXCEPT !.thoughts =
             SetLast(thoughts, [Last(thoughts) EXCEPT !.content = @ \o <<data.p>>,
                                                      !.status = "running"])]
    ELSE [m EXCEPT !.thoughts =
             Append(thoughts, Step("thought", <<data.p>>, "running", "", NoOutput))]

\* a slip: every thought event opens a step of its own
ThoughtUpdate_AlwaysPush(m, data) ==
    [m EXCEPT !.thoughts =
        Append(@, Step("thought", <<data.p>>, "running", "", NoOutput))]

\* lines 628-650: data.type === 'thought'
ThoughtUpdate(m, data) ==
    LET thoughts == m.thoughts IN
    IF /\ Len(thoughts) > 0
       /\ Last(thoughts).type = "thought"
       /\ Last(thoughts).status = "running"
    THEN [m EXCEPT !.thoughts =
             SetLast(thoughts, [Last(thoughts) EXCEPT !.content = @ \o <<data.p>>])]
    ELSE [m EXCEPT !.thoughts =
             Append(thoughts, Step("thought", <<data.p>>, "running", "", NoOutput))]

\* lines 633-636: what the thought updater leaves in the message m it was
\* given: lastThought is a step object of m itself, so the += of line 635
\* shows in m as well
ThoughtUpdatePrev(m, data) ==
    LET thoughts == m.thoughts IN
    IF /\ Len(thoughts) > 0
       /\ Last(thoughts).type = "thought"
       /\ Last(thoughts).status = "running"
    THEN [m EXCEPT !.thoughts =
             SetLast(thoughts, [Last(thoughts) EXCEPT !.content = @ \o <<data.p>>])]
    ELSE m

\* lines 657-663: the step of a tool_start event with this tool and input
ToolStep(tool, input) ==
    Step("tool", formatToolInput(tool, input), "running", tool, NoOutput)

\* a slip: a tool_start completes the step that was running before it
ToolStartUpdate_ClosesThought(m, data) ==
    LET closed ==
            IF Len(m.thoughts) > 0 /\ Last(m.thoughts).status = "running"
            THEN SetLast(m.thoughts, [Last(m.thoughts) EXCEPT !.status = "completed"])
            ELSE m.thoughts
    IN [m EXCEPT !.thoughts = Append(closed, ToolStep(ToolOf(data.p), InputOf(data.p)))]

\* lines 652-666: data.type === 'tool_start'
ToolStartUpdate(m, data) ==
    [m EXCEPT !.thoughts = Append(@, ToolStep(ToolOf(data.p), InputOf(data.p)))]

\* a slip: a tool_end without a running tool step is shown as a step of its own
ToolEndUpdate_Orphan(m, data) ==
    LET thoughts == m.thoughts IN
    IF /\ Len(thoughts) > 0
       /\ Last(thoughts).type = "tool"
       /\ Last(thoughts).status = "running"
    THEN [m EXCEPT !.thoughts =
             SetLast(thoughts, [Last(thoughts) EXCEPT !.status = "completed",
                                                      !.toolOutput = data.p])]
    ELSE [m EXCEPT !.thoughts = Append(thoughts, Step("tool", <<>>, "completed", "", data.p))]

\* a slip: tool_end completes the step but drops the output
ToolEndUpdate_NoOutput(m, data) ==
    LET thoughts == m.thoughts IN
    IF /\ Len(thoughts) > 0
       /\ Last(thoughts).type = "tool"
       /\ Last(thoughts).status = "running"
    THEN [m EXCEPT !.thoughts =
             SetLast(thoughts, [Last(thoughts) EXCEPT !.status = "completed"])]
    ELSE m

\* lines 668-680: data.type === 'tool_end'
ToolEndUpdate(m, data) ==
    LET thoughts == m.thoughts IN
    IF /\ Len(thoughts) > 0
       /\ Last(thoughts).type = "tool"
       /\ Last(thoughts).status = "running"
    THEN [m EXCEPT !.thoughts =
             SetLast(thoughts, [Last(thoughts) EXCEPT !.status = "completed",
                                                      !.toolOutput = data.p])]
    ELSE m

\* lines 672-676: what the tool_end updater leaves in the message m it was
\* given: lines 674-675 assign to a step object of m itself
ToolEndUpdatePrev(m, data) ==
    LET thoughts == m.thoughts IN
    IF /\ Len(thoughts) > 0
       /\ Last(thoughts).type = "tool"
       /\ Last(thoughts).status = "running"
    THEN [m EXCEPT !.thoughts =
             SetLast(thoughts, [Last(thoughts) EXCEPT !.status = "completed",
                                                      !.toolOutput = data.p])]
    ELSE m

\* lines 687-700: JSON.stringify(contentObj)
ContentObj(data) ==
    IF data.type = "query_rewrite" THEN <<"{rewritten_query:", data.p, "}">>
    ELSE IF data.type = "image_analysis" THEN <<"{type:image_analysis,content:", data.p, "}">>
    ELSE IF data.type = "plan" THEN <<"{plan:", data.p, "}">>
    ELSE <<"{execution_results:", data.p, "}">>

\* a slip: the structured step is always appended
TraceUpdate_AlwaysAppend(m, data) ==
    [m EXCEPT !.thoughts =
        Append(@, Step(data.type, ContentObj(data), "completed", "", NoOutput))]

\* lines 682-730: query_rewrite / image_analysis / plan / execution
TraceUpdate(m, data) ==
    LET thoughts == m.thoughts
        new == Step(data.type, ContentObj(data), "completed", "", NoOutput)
    IN IF /\ Len(thoughts) > 0
          /\ Last(thoughts).type = "thought"
          /\ Last(thoughts).status = "running"
       THEN [m EXCEPT !.thoughts = SetLast(thoughts, new)]
       ELSE [m EXCEPT !.thoughts = Append(thoughts, new)]

\* a slip: the updaters target whichever message is streaming, not the id
ApplyEvent_AnyStreaming(st, id, data) ==
    LET ac2 == IF data.type = "token" THEN st.ac \o <<data.p>> ELSE st.ac
        Upd(m) ==
            IF data.type = "token" THEN TokenUpdate(m, ac2)
            ELSE IF data.type = "thought" THEN ThoughtUpdate(m, data)
            ELSE IF data.type = "tool_start" THEN ToolStartUpdate(m, data)
            ELSE IF data.type = "tool_end" THEN ToolEndUpdate(m, data)
            ELSE IF data.type \in TraceTypes THEN TraceUpdate(m, data)
            ELSE m
    IN [msgs |-> [i \in 1..Len(st.msgs) |->
                    IF ~st.msgs[i].isStreaming THEN st.msgs[i] ELSE Upd(st.msgs[i])],
        ac |-> ac2]

\* a slip: an event of an unknown type is shown as a thought
ApplyEvent_UnknownAsThought(st, id, data) ==
    LET ac2 == IF data.type = "token" THEN st.ac \o <<data.p>> ELSE st.ac
        Upd(m) ==
            IF data.type = "token" THEN TokenUpdate(m, ac2)
            ELSE IF data.type = "tool_start" THEN ToolStartUpdate(m, data)
            ELSE IF data.type = "tool_end" THEN ToolEndUpdate(m, data)
            ELSE IF data.type \in TraceTypes THEN TraceUpdate(m, data)
            ELSE ThoughtUpdate(m, data)
    IN [msgs |-> [i \in 1..Len(st.msgs) |->
                    IF st.msgs[i].id # id THEN st.msgs[i] ELSE Upd(st.msgs[i])],
        ac |-> ac2]

\* setMessages(prev => prev.map(m => m.id !== assistantMsgId ? m : f(m)))
\* for one parsed event; st = [msgs, ac] is the message list and the
\* loop-local assistantContent
ApplyEvent(st, id, data) ==
    LET ac2 == IF data.type = "token" THEN st.ac \o <<data.p>> ELSE st.ac
        Upd(m) ==
            IF data.type = "token" THEN TokenUpdate(m, ac2)
            ELSE IF data.type = "thought" THEN ThoughtUpdate(m, data)
            ELSE IF data.type = "tool_start" THEN ToolStartUpdate(m, data)
            ELSE IF data.type = "tool_end" THEN ToolEndUpdate(m, data)
            ELSE IF data.type \in TraceTypes THEN TraceUpdate(m, data)
            ELSE m
    IN [msgs |-> [i \in 1..Len(st.msgs) |->
                    IF st.msgs[i].id # id THEN st.msgs[i] ELSE Upd(st.msgs[i])],
        ac |-> ac2]

\* a slip: a data line that does not parse is shown as answer text
ApplyLine_RawText(st, id, line) ==
    IF ~StartsWithData(line) THEN st
    ELSE LET r == JSONParse(Slice6(line))
         IN IF r.ok THEN ApplyEvent(st, id, [type |-> r.type, p |-> r.p])
            ELSE ApplyEvent(st, id, [type |-> "token", p |-> "~"])

\* lines 599-736: one line of the chunk
ApplyLine(st, id, line) ==
    IF ~StartsWithData(line) THEN st
    ELSE LET r == JSONParse(Slice6(line))
         IN IF r.ok THEN ApplyEvent(st, id, [type |-> r.type, p |-> r.p]) ELSE st

RECURSIVE ApplyLines(_, _, _)
ApplyLines(st, id, lines) ==
    IF lines = <<>> THEN st
    ELSE ApplyLines(ApplyLine(st, id, Head(lines)), id, Tail(lines))

\* lines 594-736: decode the chunk, split it, handle every line
ApplyChunk(st, id, chunk) == ApplyLines(st, id, Split(chunk))

\* ------------------------------------------------------------------- state
VARIABLES
    messages,          \* useState<Message[]>: the message list on screen
    isLoading,         \* useState(false)
    currentSessionId,  \* useState(initialSessionId)
    now,               \* Date.now(), the source of message ids: the reading
                       \* of a handleSend called after the turns before it
    sends,             \* the handleSend invocations: position and locals, and as
                       \* history the epochs of the call and of the stream's
                       \* opening (-1: open at teardown), the body received
                       \* and the tokens parsed
    loads,             \* sessions whose loadSessionMessages awaits its fetch
    voice,             \* the render whose handleTranscription a recording holds
    mounted,           \* the ChatWidget is mounted
    budget,            \* session switches the user may still start
    epoch,             \* history: the number of session switches so far
    lastAct,           \* history: whether the last step was a handleSend that
                       \* issued a request, a read (by which send,
                       \* the last event its chunk carried, the step count before
                       \* it), a gated handleSend, the end of a load (of which
                       \* session), or another step
    stored,            \* history: the response of the last GET /chat/history
    arg,               \* a payload handed to safeParseJSON
    val,               \* what the calls of safeParseJSON have made of it
    calls,             \* how many calls that were
    logs,              \* LogViewer's useState<LogEntry[]>
    source,            \* LogViewer's EventSource: whether it is open, and as
                       \* history which copy of the component runs and the
                       \* messages delivered so far
    unwrap,            \* the running invocation of safeParseJSON: the frame
                       \* on top of its stack
    dash,              \* App's sessionId and the Dashboard's data, status and
                       \* interval
    polls,             \* the getAnalysisResult requests issued so far
    backend,           \* the status the backend holds of each analysis
    conns,             \* the EventSources the processing LogViewer has built,
                       \* and as history how many messages each delivered
                       \* and whether it reported an error
    images,            \* ImageUpload's useState<ImageState[]>
    uploads,           \* the uploadFiles invocations awaiting their uploads
    mic                \* VoiceInput's isRecording and isProcessing, and where
                       \* its transcription stands

vars == <<messages, isLoading, currentSessionId, now, sends, loads, voice,
          mounted, budget, epoch, lastAct, stored, arg, val, calls, logs, source,
          unwrap, dash, polls, backend, conns, images, uploads, mic>>
\* the variables of the chat widget
chat == <<messages, isLoading, currentSessionId, now, sends, loads, voice,
          mounted, budget, epoch, lastAct, stored>>
\* the variables of the Dashboard, of ImageUpload and of VoiceInput's
\* transcription, and the stack of safeParseJSON
board == <<dash, polls, backend, conns>>
attach == <<images, uploads>>
ext == <<unwrap, board, attach, mic>>
\* the variables of the normaliser, of the LogViewer and of the other
\* components, which no operation of the chat widget touches
pure == <<arg, val, calls, logs, source, ext>>

InitialSessionId == 0
StoredSessions == {1}
FreshSessionBase == 10
Turns == 1..MaxTurns

Msg(id, role, content, isStreaming, thoughts) ==
    [id |-> id, role |-> role, content |-> content,
     isStreaming |-> isStreaming, thoughts |-> thoughts]

IdleSend == [pc |-> "idle", id |-> 0, ac |-> <<>>, sid |-> InitialSessionId,
             epoch |-> 0, opened |-> 0, wire |-> <<>>, body |-> <<>>, rx |-> <<>>]
NoEvent == [type |-> "none", p |-> "a"]
NoVoice == [on |-> FALSE, isLoading |-> FALSE, sid |-> InitialSessionId]
\* no LogViewer is mounted
NoSource == [open |-> FALSE, copy |-> 1, delivered |-> <<>>]
\* safeParseJSON is not running
NoUnwrap == [pc |-> "idle", input |-> Undefined, depth |-> 0, result |-> Undefined]
\* useState<any>(null): no poll response applied yet
NoData == [sid |-> 0, status |-> "none", logs |-> <<>>]
\* App's useState<string | null>(null): the Search page, no Dashboard
\* the analyses the backend is asked for: POST /analysis opens a new one
\* each time
Analyses == 1..MaxVisits
\* App's useState<string | null>(null): the Search page, no Dashboard; as
\* history the searches answered and under way, the Dashboards mounted, the
\* polling effects run and the requests issued
NoDash == [sessionId |-> 0, data |-> NoData, status |-> "processing",
           interval |-> 0, effect |-> 0, inst |-> 0, viewer |-> FALSE,
           pending |-> 0, visits |-> 0, issued |-> 0]
\* useState(false) for isUploading, and no uploadFiles call under way
NoUploads == [isUploading |-> FALSE, started |-> 0, running |-> {}]
\* useState(false) twice, and no transcription under way; as history the
\* recordings asked for and the texts transcribed
NoMic == [isRecording |-> FALSE, isProcessing |-> FALSE, pc |-> "none",
          takes |-> 0, heard |-> <<>>]
ErrorText == <<"Sorry, I encountered an error receiving the response.">>

\* what GET /chat/history/<sid> returns: stored messages carry database ids,
\* and a stored tool step may lack its content
StoredStep(type, content, toolName, toolInput) ==
    [type |-> type, content |-> content, status |-> "completed",
     toolName |-> toolName, toolOutput |-> "a", toolInput |-> toolInput]
StoredToolInput == [kind |-> "object", query |-> "NVDA", ticker |-> "", url |-> ""]
StoredHistory(steps) ==
    << [id |-> 101, role |-> "user", content |-> <<"a">>, thoughts |-> <<>>],
       [id |-> 102, role |-> "assistant", content |-> <<"b">>, thoughts |-> steps] >>
History(sid) ==
    IF sid = 1
    THEN StoredHistory(<<StoredStep("tool", <<>>, "web_search", StoredToolInput)>>)
    ELSE <<>>
\* a stored step that is null, and one that is a number or a string: reading
\* .type of the first throws, of the second gives undefined
NullStep == StoredStep("null", <<>>, "", EmptyInput)
ScalarStep == StoredStep("scalar", <<>>, "", EmptyInput)

\* a slip: the hydration shows the stored input as it is
HydrateStep_RawInput(t) ==
    IF t.type = "tool" /\ t.content = <<>> /\ t.toolInput.kind # "empty"
    THEN Step(t.type, <<t.toolInput.query, t.toolInput.ticker, t.toolInput.url>>,
              t.status, t.toolName, t.toolOutput)
    ELSE Step(t.type, t.content, t.status, t.toolName, t.toolOutput)

\* lines 428-434: the tool-step hydration; the other fields are kept
HydrateStep(t) ==
    IF t.type = "tool" /\ t.content = <<>> /\ t.toolInput.kind # "empty"
    THEN Step(t.type, formatToolInput(t.toolName, t.toolInput), t.status,
              t.toolName, t.toolOutput)
    ELSE Step(t.type, t.content, t.status, t.toolName, t.toolOutput)
\* line 430: t.type of a null step throws a TypeError out of history.map
HydrateThrows(h) ==
    \E i \in 1..Len(h) : \E j \in 1..Len(h[i].thoughts) : h[i].thoughts[j] = NullStep
\* lines 422-435: history.map(...)
HydrateHistory(h) ==
    [i \in 1..Len(h) |->
        Msg(h[i].id, h[i].role, h[i].content, FALSE,
            [j \in 1..Len(h[i].thoughts) |-> HydrateStep(h[i].thoughts[j])])]

\* lines 908-924: the message list grouped into turns for rendering; a turn
\* without an assistant message (null) has the empty sequence in its place
RECURSIVE GroupFrom(_, _, _)
GroupFrom(msgs, currentUserMsgs, turns) ==
    IF msgs = <<>>
    THEN IF Len(currentUserMsgs) > 0
         THEN Append(turns, [user |-> currentUserMsgs, assistant |-> <<>>])
         ELSE turns
    ELSE IF Head(msgs).role = "user"
         THEN GroupFrom(Tail(msgs), Append(currentUserMsgs, Head(msgs)), turns)
         ELSE GroupFrom(Tail(msgs), <<>>,
                        Append(turns, [user |-> currentUserMsgs,
                                       assistant |-> <<Head(msgs)>>]))
GroupTurns(msgs) == GroupFrom(msgs, <<>>, <<>>)
\* lines 926-1000: a turn renders its user messages, then its assistant message
RECURSIVE RenderOrder(_)
RenderOrder(turns) ==
    IF turns = <<>> THEN <<>>
    ELSE Head(turns).user \o Head(turns).assistant \o RenderOrder(Tail(turns))

\* a setState call of an unmounted component is dropped
SetState(new, old) == IF mounted THEN new ELSE old

\* the chat widget as mounted
ChatIdle ==
    /\ messages = <<>>
    /\ isLoading = FALSE
    /\ currentSessionId = InitialSessionId
    /\ now = 1
    /\ sends = [s \in Turns |-> IdleSend]
    /\ loads = {}
    /\ voice = NoVoice
    /\ mounted = TRUE
    /\ budget = MaxSwitches
    /\ epoch = 0
    /\ lastAct = [op |-> "init", s |-> 0, ev |-> NoEvent, before |-> 0]
    /\ stored = <<>>
\* no payload handed to safeParseJSON
NormIdle ==
    /\ arg = Undefined
    /\ val = Undefined
    /\ calls = 0
    /\ unwrap = NoUnwrap
\* no LogViewer mounted
ViewerIdle ==
    /\ logs = <<>>
    /\ source = NoSource
\* App before a search: no Dashboard mounted
BoardIdle ==
    /\ dash = NoDash
    /\ polls = {}
    /\ backend = [sid \in Analyses |-> "processing"]
    /\ conns = <<>>
\* ImageUpload as mounted
AttachIdle ==
    /\ images = <<>>
    /\ uploads = NoUploads
\* VoiceInput as mounted
MicIdle == mic = NoMic
Init ==
    /\ ChatIdle
    /\ NormIdle
    /\ ViewerIdle
    /\ BoardIdle
    /\ AttachIdle
    /\ MicIdle

\* ----------------------------------------------------------------- actions
Open(s) == sends[s].pc \in {"fetching", "reading"}
NextTurn(s) == sends[s].pc = "idle" /\ \A r \in Turns : r < s => sends[r].pc # "idle"

\* lines 538-579: handleSend up to the await of fetch; closure is the render
\* the handler was created in, t what Date.now() returns in lines 543 and 557
HandleSend(s, closure, t) ==
    /\ mounted
    /\ NextTurn(s)
    /\ IF closure.isLoading
       THEN /\ lastAct' = [op |-> "gated", s |-> s, ev |-> NoEvent, before |-> 0]
            /\ UNCHANGED <<messages, isLoading, currentSessionId, now, sends,
                           loads, mounted, budget, epoch, stored, pure>>
       ELSE /\ messages' = messages \o
                   << Msg(t, "user", <<"q">>, FALSE, <<>>),
                      Msg(t + 1, "assistant", <<>>, TRUE, <<>>) >>
            /\ isLoading' = TRUE
            /\ sends' = [sends EXCEPT ![s] =
                   [IdleSend EXCEPT !.pc = "fetching", !.id = t + 1,
                                    !.sid = closure.sid, !.epoch = epoch]]
            /\ now' = t + 2
            /\ lastAct' = [op |-> "send", s |-> s, ev |-> NoEvent, before |-> 0]
            /\ UNCHANGED <<currentSessionId, loads, mounted, budget, epoch, stored, pure>>

\* lines 1029/1038: Enter or the send button, in the current render; the
\* gate has let the turns before it finish, so the clock has moved on
TypedSend(s) ==
    /\ HandleSend(s, [on |-> FALSE, isLoading |-> isLoading, sid |-> currentSessionId], now)
    /\ UNCHANGED voice

\* VoiceInput.tsx lines 15-37: onstop keeps the handleTranscription of the
\* render in which recording started
StartRecording ==
    /\ mounted
    /\ ~voice.on
    /\ voice' = [on |-> TRUE, isLoading |-> isLoading, sid |-> currentSessionId]
    /\ lastAct' = [op |-> "other", s |-> 0, ev |-> NoEvent, before |-> 0]
    /\ UNCHANGED <<messages, isLoading, currentSessionId, now, sends, loads,
                   mounted, budget, epoch, stored, pure>>

\* lines 529-536 and VoiceInput.tsx lines 80-83: the transcription arrives
\* when the clock reads t
VoiceSendAt(s, t) ==
    /\ voice.on
    /\ HandleSend(s, voice, t)
    /\ voice' = NoVoice
VoiceSend(s) == VoiceSendAt(s, now)

\* lines 581-591: the response is ok and has a body; the first read is issued
FetchOk(s, body) ==
    /\ sends[s].pc = "fetching"
    /\ sends' = [sends EXCEPT ![s].pc = "reading", ![s].wire = body, ![s].body = body,
                              ![s].opened = epoch]
    /\ lastAct' = [op |-> "other", s |-> 0, ev |-> NoEvent, before |-> 0]
    /\ UNCHANGED <<messages, isLoading, currentSessionId, now, loads, voice,
                   mounted, budget, epoch, stored, pure>>

\* handleSend has returned: its locals and its reader are gone
Returned(s, how) == [IdleSend EXCEPT !.pc = how, !.id = sends[s].id]

\* a slip: the catch block clears isStreaming but shows no error text
Catch_KeepContent(msgs, id) ==
    [i \in 1..Len(msgs) |->
        IF msgs[i].id = id THEN [msgs[i] EXCEPT !.isStreaming = FALSE] ELSE msgs[i]]

\* a slip: the finally block forgets the message
Finally_LoadingOnly(msgs, id) == msgs

\* a slip: the finally block clears isStreaming only of a message with text
Finally_OnlyWithContent(msgs, id) ==
    [i \in 1..Len(msgs) |->
        IF msgs[i].id = id /\ msgs[i].content # <<>>
        THEN [msgs[i] EXCEPT !.isStreaming = FALSE]
        ELSE msgs[i]]

\* lines 738-748: catch, then finally
Catch(msgs, id) ==
    [i \in 1..Len(msgs) |->
        IF msgs[i].id = id
        THEN [msgs[i] EXCEPT !.content = ErrorText, !.isStreaming = FALSE]
        ELSE msgs[i]]
Finally(msgs, id) ==
    [i \in 1..Len(msgs) |->
        IF msgs[i].id = id THEN [msgs[i] EXCEPT !.isStreaming = FALSE] ELSE msgs[i]]

\* lines 567-586, 738-748: fetch rejects, !response.ok, or no reader
FetchFail(s) ==
    /\ sends[s].pc = "fetching"
    /\ messages' = SetState(Finally(Catch(messages, sends[s].id), sends[s].id), messages)
    /\ isLoading' = SetState(FALSE, isLoading)
    /\ sends' = [sends EXCEPT ![s] = Returned(s, "failed")]
    /\ lastAct' = [op |-> "other", s |-> 0, ev |-> NoEvent, before |-> 0]
    /\ UNCHANGED <<currentSessionId, now, loads, voice, mounted, budget, epoch, stored, pure>>

\* history operators: a message by id, the last event of a chunk's lines, and
\* the token payloads of the records the lines parse to
Has(msgs, id) == \E i \in 1..Len(msgs) : msgs[i].id = id
Get(msgs, id) == msgs[CHOOSE i \in 1..Len(msgs) : msgs[i].id = id]
StepCount(msgs, id) == IF Has(msgs, id) THEN Len(Get(msgs, id).thoughts) ELSE 0
RECURSIVE LastEvent(_)
LastEvent(lines) ==
    IF lines = <<>> THEN NoEvent
    ELSE LET l == Last(lines)
             r == JSONParse(Slice6(l))
         IN IF StartsWithData(l) /\ r.ok THEN [type |-> r.type, p |-> r.p]
            ELSE LastEvent(SubSeq(lines, 1, Len(lines) - 1))

RECURSIVE TokensOf(_)
TokensOf(lines) ==
    IF lines = <<>> THEN <<>>
    ELSE LET l == Head(lines)
             r == JSONParse(Slice6(l))
         IN (IF StartsWithData(l) /\ r.ok /\ r.type = "token" THEN <<r.p>> ELSE <<>>)
            \o TokensOf(Tail(lines))

\* the size of what a stream has built: the characters of the answer and of
\* the thoughts, and one for every other step
RECURSIVE StepsSize(_)
StepsSize(ts) ==
    IF ts = <<>> THEN 0
    ELSE (IF Head(ts).type = "thought" THEN Len(Head(ts).content) ELSE 1)
            + StepsSize(Tail(ts))
WithinBounds(st, id) ==
    Len(st.ac) + (IF Has(st.msgs, id) THEN StepsSize(Get(st.msgs, id).thoughts) ELSE 0)
        <= MaxSize

\* lines 590-737: reader.read() resolves with a chunk; every line of it is
\* handled and the next read is issued; rest is what the transport still holds
ReadChunk(s, chunk, rest) ==
    LET st == ApplyChunk([msgs |-> messages, ac |-> sends[s].ac], sends[s].id, chunk) IN
    /\ sends[s].pc = "reading"
    /\ WithinBounds(st, sends[s].id)
    /\ messages' = SetState(st.msgs, messages)
    /\ sends' = [sends EXCEPT ![s].ac = st.ac, ![s].wire = rest,
                              ![s].rx = @ \o TokensOf(Split(chunk))]
    /\ lastAct' = [op |-> "read", s |-> s, ev |-> LastEvent(Split(chunk)),
                    before |-> StepCount(messages, sends[s].id)]
    /\ UNCHANGED <<isLoading, currentSessionId, now, loads, voice, mounted, budget, epoch, stored, pure>>

\* lines 591-592, 743-748: reader.read() resolves with done; finally runs
ReadDone(s) ==
    /\ sends[s].pc = "reading"
    /\ sends[s].wire = <<>>
    /\ messages' = SetState(Finally(messages, sends[s].id), messages)
    /\ isLoading' = SetState(FALSE, isLoading)
    /\ sends' = [sends EXCEPT ![s] = Returned(s, "done")]
    /\ lastAct' = [op |-> "other", s |-> 0, ev |-> NoEvent, before |-> 0]
    /\ UNCHANGED <<currentSessionId, now, loads, voice, mounted, budget, epoch, stored, pure>>

\* lines 591, 738-748: reader.read() rejects; catch and finally run
ReadError(s) ==
    /\ sends[s].pc = "reading"
    /\ messages' = SetState(Finally(Catch(messages, sends[s].id), sends[s].id), messages)
    /\ isLoading' = SetState(FALSE, isLoading)
    /\ sends' = [sends EXCEPT ![s] = Returned(s, "failed")]
    /\ lastAct' = [op |-> "other", s |-> 0, ev |-> NoEvent, before |-> 0]
    /\ UNCHANGED <<currentSessionId, now, loads, voice, mounted, budget, epoch, stored, pure>>

\* lines 416-419: loadSessionMessages up to the await of fetch
LoadStart(sid) ==
    /\ mounted
    /\ budget > 0
    /\ sid \notin loads
    /\ isLoading' = TRUE
    /\ loads' = loads \cup {sid}
    /\ budget' = budget - 1
    /\ lastAct' = [op |-> "other", s |-> 0, ev |-> NoEvent, before |-> 0]
    /\ UNCHANGED <<messages, currentSessionId, now, sends, voice, mounted, epoch, stored, pure>>

\* lines 420-443: the history h arrives; the list and the session are
\* replaced, unless mapping the history throws into the catch
LoadOk(sid, h) ==
    /\ sid \in loads
    /\ IF HydrateThrows(h)
       THEN UNCHANGED <<messages, currentSessionId, epoch>>
       ELSE /\ messages' = SetState(HydrateHistory(h), messages)
            /\ currentSessionId' = SetState(sid, currentSessionId)
            /\ epoch' = IF mounted THEN epoch + 1 ELSE epoch
    /\ isLoading' = SetState(FALSE, isLoading)
    /\ loads' = loads \ {sid}
    /\ stored' = h
    /\ lastAct' = [op |-> "load", s |-> sid, ev |-> NoEvent, before |-> 0]
    /\ UNCHANGED <<now, sends, voice, mounted, budget, pure>>

\* lines 420, 439-443: the response is not ok, or fetch / json() throws
LoadFail(sid) ==
    /\ sid \in loads
    /\ isLoading' = SetState(FALSE, isLoading)
    /\ loads' = loads \ {sid}
    /\ lastAct' = [op |-> "loadfail", s |-> sid, ev |-> NoEvent, before |-> 0]
    /\ UNCHANGED <<messages, currentSessionId, now, sends, voice, mounted, budget, epoch, stored, pure>>

\* lines 447-455: handleNewChat
HandleNewChat ==
    /\ mounted
    /\ budget > 0
    /\ currentSessionId' = FreshSessionBase + budget
    /\ messages' = <<>>
    /\ budget' = budget - 1
    /\ epoch' = epoch + 1
    /\ lastAct' = [op |-> "other", s |-> 0, ev |-> NoEvent, before |-> 0]
    /\ UNCHANGED <<isLoading, now, sends, loads, voice, mounted, stored, pure>>

\* the ChatWidget is unmounted: its state is discarded and no gesture reaches
\* it any more; no effect cleanup touches a stream, so open streams go on
Unmount ==
    /\ mounted
    /\ mounted' = FALSE
    /\ messages' = <<>>
    /\ isLoading' = FALSE
    /\ currentSessionId' = InitialSessionId
    /\ loads' = {}
    /\ voice' = NoVoice
    /\ budget' = 0
    /\ epoch' = 0
    /\ sends' = [s \in Turns |->
                    [sends[s] EXCEPT !.epoch = 0,
                                     !.opened = IF sends[s].pc = "reading" THEN -1 ELSE 0]]
    /\ lastAct' = [op |-> "other", s |-> 0, ev |-> NoEvent, before |-> 0]
    /\ stored' = <<>>
    /\ UNCHANGED <<now, pure>>

\* ---------------------------------------------------------- specifications
\* the texts made of at most n of the given records
RECURSIVE RecordSeqs(_, _)
RecordSeqs(recs, n) ==
    IF n = 0 THEN {<<>>}
    ELSE LET shorter == RecordSeqs(recs, n - 1)
         IN shorter \cup {r \o c : r \in recs, c \in {x \in shorter : Len(x) > 0}} \cup recs
AllRecords == {Encode(e) : e \in Events} \cup {BadRecord}
TraceChunks == AllRecords
SessionChunks ==
    {Encode([type |-> "token", p |-> "a"]),
     Encode([type |-> "thought", p |-> "a"]) \o Encode([type |-> "token", p |-> "a"])}

\* the widget: typed turns, session switches, teardown
Next ==
    \/ \E s \in Turns : TypedSend(s)
    \/ \E s \in Turns : FetchOk(s, <<>>)
    \/ \E s \in Turns : FetchFail(s)
    \/ \E s \in Turns : \E chunk \in SessionChunks : ReadChunk(s, chunk, <<>>)
    \/ \E s \in Turns : ReadDone(s)
    \/ \E s \in Turns : ReadError(s)
    \/ \E sid \in StoredSessions : LoadStart(sid)
    \/ \E sid \in StoredSessions : LoadOk(sid, History(sid))
    \/ \E sid \in StoredSessions : LoadFail(sid)
    \/ HandleNewChat
    \/ Unmount
Spec == Init /\ [][Next]_vars

\* one turn among session switches and teardown, when the request is answered
\* or fails and the stream ends or breaks: a promise that settles resumes
\* handleSend on the event loop
LiveNext ==
    \/ TypedSend(1)
    \/ FetchOk(1, <<>>)
    \/ FetchFail(1)
    \/ \E chunk \in SessionChunks : ReadChunk(1, chunk, <<>>)
    \/ ReadDone(1)
    \/ ReadError(1)
    \/ \E sid \in StoredSessions : LoadStart(sid)
    \/ \E sid \in StoredSessions : LoadOk(sid, History(sid))
    \/ \E sid \in StoredSessions : LoadFail(sid)
    \/ HandleNewChat
    \/ Unmount
Settles(s) ==
    /\ WF_vars(FetchOk(s, <<>>) \/ FetchFail(s))
    /\ WF_vars(ReadDone(s) \/ ReadError(s))
SpecLive == Init /\ [][LiveNext]_vars /\ Settles(1)

\* the widget with voice input, whose sends run in the render that was
\* current when recording started
VoiceNext ==
    \/ Next
    \/ StartRecording
    \/ \E s \in Turns : VoiceSend(s)
SpecVoice == Init /\ [][VoiceNext]_vars

\* the widget with voice input whose transcription may arrive right after
\* another handleSend: in the same millisecond, or in the next one
ClockReadings == {t \in (now - 2)..now : t < now => lastAct.op = "send"}
ClockNext ==
    \/ Next
    \/ StartRecording
    \/ \E s \in Turns : \E t \in ClockReadings : VoiceSendAt(s, t)
SpecClock == Init /\ [][ClockNext]_vars

\* one turn, fed every sequence of records, one whole record per chunk
TraceNext ==
    \/ TypedSend(1)
    \/ FetchOk(1, <<>>)
    \/ FetchFail(1)
    \/ \E chunk \in TraceChunks : ReadChunk(1, chunk, <<>>)
    \/ ReadDone(1)
    \/ ReadError(1)
SpecTrace == Init /\ [][TraceNext]_vars

\* one turn whose response body is cut into chunks at arbitrary places
FramingEvents == {[type |-> "token", p |-> "a"], [type |-> "token", p |-> "b"],
                  [type |-> "thought", p |-> "a"], [type |-> "tool_start", p |-> "a"],
                  [type |-> "tool_end", p |-> "b"], [type |-> "plan", p |-> "a"]}
Bodies == RecordSeqs({Encode(e) : e \in FramingEvents} \cup {BadRecord}, MaxRecs) \ {<<>>}
ReadCut(s) ==
    \E k \in 1..Len(sends[s].wire) :
        ReadChunk(s, SubSeq(sends[s].wire, 1, k),
                  SubSeq(sends[s].wire, k + 1, Len(sends[s].wire)))
FramingNext ==
    \/ TypedSend(1)
    \/ \E body \in Bodies : FetchOk(1, body)
    \/ ReadCut(1)
    \/ ReadDone(1)
SpecFraming == Init /\ [][FramingNext]_vars

\* loading sessions whose stored assistant message has any steps
StoredSteps ==
    {StoredStep("tool", <<>>, "web_search", ObjectInput("NVDA", "", "")),
     StoredStep("tool", <<>>, "get_financials", ObjectInput("NVDA", "", "")),
     StoredStep("tool", <<>>, "get_financials", ObjectInput("", "NVDA", "")),
     StoredStep("tool", <<>>, "web_search", ObjectInput("", "", "u")),
     StoredStep("tool", <<>>, "get_financials", StringInput(PlanText)),
     StoredStep("tool", <<>>, "get_financials", EmptyInput),
     StoredStep("tool", <<"c">>, "web_search", StoredToolInput),
     StoredStep("thought", <<"a">>, "", EmptyInput),
     NullStep, ScalarStep}
RECURSIVE StepSeqs(_)
StepSeqs(n) ==
    IF n = 0 THEN {<<>>}
    ELSE LET shorter == StepSeqs(n - 1)
         IN shorter \cup {Append(q, t) : q \in shorter, t \in StoredSteps}
\* stored sessions whose messages do not alternate: a question whose answer
\* was never stored followed by a full turn, and an answer without a question
StoredUser(id) == [id |-> id, role |-> "user", content |-> <<"a">>, thoughts |-> <<>>]
StoredAssistant(id) == [id |-> id, role |-> "assistant", content |-> <<"b">>, thoughts |-> <<>>]
UnevenHistories ==
    {<<StoredUser(101), StoredUser(103), StoredAssistant(104)>>, <<StoredAssistant(102)>>}
Histories == {StoredHistory(steps) : steps \in StepSeqs(MaxStored)} \cup UnevenHistories
LoadNext ==
    \/ \E sid \in StoredSessions : LoadStart(sid)
    \/ \E sid \in StoredSessions : \E h \in Histories : LoadOk(sid, h)
    \/ \E sid \in StoredSessions : LoadFail(sid)
    \/ HandleNewChat
    \/ Unmount
SpecLoad == Init /\ [][LoadNext]_vars

\* one turn whose stream pairs every tool_start with its tool_end and ends in
\* tokens, delivered one whole record per read
RECURSIVE EncodeAll(_)
EncodeAll(evs) == IF evs = <<>> THEN <<>> ELSE Encode(Head(evs)) \o EncodeAll(Tail(evs))
PairedStream(starts, ends, tokens) ==
    [i \in 1..(2 * Len(starts)) |->
        IF i % 2 = 1 THEN [type |-> "tool_start", p |-> starts[(i + 1) \div 2]]
        ELSE [type |-> "tool_end", p |-> ends[i \div 2]]]
      \o [i \in 1..Len(tokens) |-> [type |-> "token", p |-> tokens[i]]]
PairedStreams ==
    UNION {{PairedStream(st, en, tk) :
                st \in [1..k -> PayloadChars], en \in [1..k -> PayloadChars],
                tk \in [1..(MaxSize - k) -> PayloadChars]} :
           k \in 0..(MaxSize - 1)}
PairedBodies == {EncodeAll(evs) : evs \in PairedStreams}
\* lines 590-598: a read that delivers the next whole record
ReadRecord(s) ==
    LET wire == sends[s].wire
        k == CHOOSE i \in 1..Len(wire) :
                wire[i] = NL /\ \A j \in 1..(i - 1) : wire[j] # NL
    IN /\ wire # <<>>
       /\ ReadChunk(s, SubSeq(wire, 1, k), SubSeq(wire, k + 1, Len(wire)))
PairedNext ==
    \/ TypedSend(1)
    \/ \E body \in PairedBodies : FetchOk(1, body)
    \/ ReadRecord(1)
    \/ ReadDone(1)
SpecPaired == Init /\ [][PairedNext]_vars

\* safeParseJSON applied, and applied again to its result, on payloads that
\* are values, plain strings, and strings JSON-encoded up to MaxEnc times
Enc(v) == Val("string", Stringify(v))
BasePayloads ==
    {Val("object", <<"{", "k", "a", "}">>), Val("array", <<"[", "]">>),
     Val("number", <<"5">>), Null, Undefined,
     Val("string", <<>>), Val("string", <<Space>>), Val("string", <<"a", "b">>),
     Val("string", <<"{", "x">>), Val("string", <<"[", "x">>),
     Val("string", <<"a", Quote, "b">>), Val("string", <<Backslash>>),
     Val("string", <<Space, "{", "}", Space>>), Val("string", <<"5">>),
     Val("string", NullText), Val("string", <<Space, "[", "]">>),
     Val("string", <<"[", Space>>), Val("string", <<"{", Quote>>),
     Val("string", <<Quote, "a", Quote>>)}
RECURSIVE Encoded(_)
Encoded(n) ==
    IF n = 0 THEN BasePayloads
    ELSE Encoded(n - 1) \cup {Enc(v) : v \in Encoded(n - 1)}
Payloads == Encoded(MaxEnc)
InitNormalize ==
    /\ ChatIdle
    /\ arg \in Payloads
    /\ val = arg
    /\ calls = 0
    /\ unwrap = NoUnwrap
    /\ ViewerIdle
    /\ BoardIdle
    /\ AttachIdle
    /\ MicIdle
\* line 63, and lines 206 and 212: safeParseJSON called on a payload, and on
\* what an earlier call returned
Normalize ==
    /\ calls < MaxCalls
    /\ val' = safeParseJSON(val)
    /\ calls' = calls + 1
    /\ UNCHANGED <<chat, arg, logs, source, ext>>
SpecNormalize == InitNormalize /\ [][Normalize]_vars

\* One invocation of safeParseJSON, an activation at a time: unwrap is the
\* activation on top of the stack, depth the activations below it.  A nested
\* call is in tail position (line 51), so what it returns is what every
\* activation below it returns.
\* a slip: the nested call is handed the input, not what was parsed
safeParseJSONStep_SameInput(f) ==
    IF f.input.k \in {"object", "array"}
    THEN [f EXCEPT !.pc = "returned", !.result = f.input]
    ELSE LET parsed == JSONParseText(ToText(f.input)) IN
         IF parsed = Thrown THEN [f EXCEPT !.pc = "returned", !.result = f.input]
         ELSE IF parsed.k = "string" /\ LooksLikeJSON(parsed.s)
              THEN [f EXCEPT !.depth = @ + 1]
         ELSE [f EXCEPT !.pc = "returned", !.result = parsed]
\* lines 45-57: one activation, up to its return or its nested call
safeParseJSONStep(f) ==
    IF f.input.k \in {"object", "array"}
    THEN [f EXCEPT !.pc = "returned", !.result = f.input]
    ELSE LET parsed == JSONParseText(ToText(f.input)) IN
         IF parsed = Thrown THEN [f EXCEPT !.pc = "returned", !.result = f.input]
         ELSE IF parsed.k = "string" /\ LooksLikeJSON(parsed.s)
              THEN [f EXCEPT !.input = parsed, !.depth = @ + 1]
         ELSE [f EXCEPT !.pc = "returned", !.result = parsed]
\* safeParseJSON has been called on a payload
InitUnwrap ==
    /\ ChatIdle
    /\ arg \in Payloads
    /\ val = arg
    /\ calls = 0
    /\ unwrap = [pc |-> "call", input |-> arg, depth |-> 0, result |-> Undefined]
    /\ ViewerIdle
    /\ BoardIdle
    /\ AttachIdle
    /\ MicIdle
\* the activations a payload can lead to, and what each of them does
Activations ==
    {[pc |-> "call", input |-> v, depth |-> d, result |-> Undefined] :
        v \in Payloads, d \in 0..MaxEnc}
Activation == [f \in Activations |-> safeParseJSONStep(f)]
\* the activation on top of the stack runs
Invoke ==
    /\ unwrap.pc = "call"
    /\ unwrap' = Activation[unwrap]
    /\ UNCHANGED <<chat, arg, val, calls, logs, source, board, attach, mic>>
\* JavaScript runs a started call to its end
SpecUnwrap == InitUnwrap /\ [][Invoke]_vars /\ WF_vars(Invoke)

\* --------------------------------------------------------------- LogViewer
\* A log message (event.data) is a sequence of pieces: words of plain text,
\* or the text of a JSON value.  A JSON object is "{" <type field> <word> "}",
\* its second field being the message; String.prototype.includes finds a
\* marker where a piece is that marker.
LogWords == {"Insight:", "Tool Usage:", "ERROR", "x"}
\* the type field of an object's text and the value it gives the object:
\* a type of the schema, the empty string, null, or no type field at all
TypeFields ==
    {"\"type\":\"info\",", "\"type\":\"tool\",", "\"type\":\"\",", "\"type\":null,", ""}
NoType == "(undefined)"
NullType == "(null)"
TypeOfField(f) ==
    IF f = "\"type\":\"info\"," THEN "info"
    ELSE IF f = "\"type\":\"tool\"," THEN "tool"
    ELSE IF f = "\"type\":\"\"," THEN ""
    ELSE IF f = "\"type\":null," THEN NullType
    ELSE NoType
LogEntry(type, agent, message, content) ==
    [type |-> type, agent |-> agent, message |-> message, content |-> content]
\* JSON.parse(event.data): an object (v is the object, shaped as a LogEntry),
\* null, a number, or a SyntaxError
LogParse(data) ==
    IF /\ Len(data) = 4
       /\ data[1] = "{"
       /\ data[4] = "}"
       /\ data[2] \in TypeFields
       /\ data[3] \in LogWords
    THEN [k |-> "object",
          v |-> LogEntry(TypeOfField(data[2]), "Analyst", <<data[3]>>, <<data[3]>>)]
    ELSE IF data = <<"null">> THEN [k |-> "null", v |-> LogEntry("", "", <<>>, <<>>)]
    ELSE IF data = <<"5">> THEN [k |-> "number", v |-> LogEntry("", "", <<>>, <<>>)]
    ELSE [k |-> "thrown", v |-> LogEntry("", "", <<>>, <<>>)]
Includes(text, marker) == \E i \in 1..Len(text) : text[i] = marker
\* String.prototype.replace(marker, ""): the first occurrence goes
RemoveFirst(text, marker) ==
    IF Includes(text, marker)
    THEN LET i == CHOOSE j \in 1..Len(text) :
                     text[j] = marker /\ \A k \in 1..(j - 1) : text[k] # marker
         IN SubSeq(text, 1, i - 1) \o SubSeq(text, i + 1, Len(text))
    ELSE text
\* a truthy type: neither undefined, nor null, nor ''
Truthy(type) == type \notin {NoType, NullType, ""}

\* LogViewer.tsx lines 42-45 and 383-386: later assignments overwrite
LegacyType(logStr) ==
    LET t0 == "info"
        t1 == IF Includes(logStr, "Insight:") THEN "thought" ELSE t0
        t2 == IF Includes(logStr, "Tool Usage:") THEN "tool" ELSE t1
    IN IF Includes(logStr, "ERROR") THEN "error" ELSE t2
\* LogViewer.tsx lines 40-54
parseLegacyLog(logStr) == LogEntry(LegacyType(logStr), "System", logStr, logStr)
\* LogViewer.tsx lines 63-77: the first copy's onmessage; reading .type of
\* null throws a TypeError inside the try
onmessage(data) ==
    LET parsed == LogParse(data) IN
    IF parsed.k \in {"thrown", "null"} THEN parseLegacyLog(data)
    ELSE IF parsed.k = "object" /\ Truthy(parsed.v.type) THEN parsed.v
    ELSE parseLegacyLog(data)
\* LogViewer.tsx lines 372-395: the second copy; event.data is a string
tryParseLog(logItem) ==
    LET parsed == LogParse(logItem)
        stripped == RemoveFirst(RemoveFirst(logItem, "Insight:"), "Tool Usage:")
    IN IF parsed.k = "object" /\ parsed.v.type # NoType THEN parsed.v
       ELSE LogEntry(LegacyType(logItem), "System", logItem,
                     IF stripped # <<>> THEN stripped ELSE logItem)

\* the messages an EventSource may deliver
PlainTexts == UNION {[1..n -> LogWords] : n \in 0..MaxWords}
ObjectTexts == {<<"{", f, w, "}">> : f \in TypeFields, w \in {"x", "ERROR"}}
LogTexts == PlainTexts \cup ObjectTexts \cup {<<"null">>, <<"5">>}
\* isProcessing is set and the effect has opened the EventSource, in either
\* copy of the component
InitLog ==
    /\ ChatIdle
    /\ NormIdle
    /\ BoardIdle
    /\ AttachIdle
    /\ MicIdle
    /\ logs = <<>>
    /\ source \in {[open |-> TRUE, copy |-> c, delivered |-> <<>>] : c \in {1, 2}}
\* LogViewer.tsx lines 63-77 and 408-410: eventSource.onmessage
OnMessage(data) ==
    /\ source.open
    /\ Len(source.delivered) < MaxLogs
    /\ logs' = Append(logs, IF source.copy = 1 THEN onmessage(data) ELSE tryParseLog(data))
    /\ source' = [source EXCEPT !.delivered = Append(@, data)]
    /\ UNCHANGED <<chat, arg, val, calls, ext>>
\* LogViewer.tsx lines 79-82 and 411: eventSource.onerror closes the source
OnError ==
    /\ source.open
    /\ source' = [source EXCEPT !.open = FALSE]
    /\ UNCHANGED <<chat, arg, val, calls, logs, ext>>
LogNext ==
    \/ \E data \in LogTexts : OnMessage(data)
    \/ OnError
SpecLog == InitLog /\ [][LogNext]_vars

\* --------------------------------------------------------------- Dashboard
\* App shows the Search page while sessionId is null and the Dashboard
\* otherwise.  The Dashboard polls GET /analysis/<sessionId>; while it has no
\* data or its status is 'processing' it shows a LogViewer with isProcessing
\* set, which streams the log lines of the analysis.  A log line is known by
\* its analysis and its number; a poll response carries the first lines of
\* the log, an EventSource delivers the lines in order.
Terminal == {"completed", "failed"}
LogLine(sid, n) == [sid |-> sid, n |-> n]
LogLines(sid, k) == [n \in 1..k |-> LogLine(sid, n)]
\* the EventSources of a list closed: eventSource.close() (lines 85 and 412)
Closed(cs) == [c \in 1..Len(cs) |-> [cs[c] EXCEPT !.open = FALSE]]
\* a slip: the cleanup of the effect leaves the EventSource open
OpenSource_NoCleanup(cs, sid) ==
    Append(cs, [sid |-> sid, open |-> TRUE, sent |-> 0, erred |-> FALSE])
\* LogViewer.tsx lines 57-87 and 404-413: the cleanup of the effect before
\* closes the source it built, and the effect builds one for sessionId
OpenSource(cs, sid) ==
    Append(Closed(cs), [sid |-> sid, open |-> TRUE, sent |-> 0, erred |-> FALSE])
\* LogViewer.tsx lines 28-38 and 397-401: the effect on initialLogs, here
\* data?.logs || [], replaces the list by a response's logs unless that is
\* empty
InitialLogs(prev, initialLogs) == IF Len(initialLogs) > 0 THEN initialLogs ELSE prev
\* Dashboard.tsx line 92: the processing view, and in it the LogViewer
Processing(data, status) == data = NoData \/ status = "processing"
\* Dashboard.tsx lines 72-73 and api.ts lines 20-23: fetchData sends its
\* request, for the sessionId of the effect it belongs to
Request(d) ==
    [n |-> d.issued + 1, sid |-> d.sessionId, inst |-> d.inst, effect |-> d.effect,
     served |-> FALSE, status |-> "processing"]

\* Search's onSearch (api.ts lines 113-123 and 201): App.handleSearch calls
\* triggerAnalysis; the Popular buttons and the suggestions are not disabled
\* while an earlier search is under way
OnSearch ==
    /\ dash.sessionId = 0
    /\ dash.visits + dash.pending < MaxVisits
    /\ dash' = [dash EXCEPT !.pending = @ + 1]
    /\ UNCHANGED <<chat, arg, val, calls, logs, source, unwrap, polls, backend,
                   conns, attach, mic>>
\* App.tsx lines 13-14: triggerAnalysis resolves and setSessionId shows the
\* Dashboard for the new analysis, or hands a Dashboard already shown another
\* sessionId.  Dashboard.tsx lines 86-89: the effect's cleanup clears the
\* interval of the effect before, the effect calls fetchData and sets its
\* interval.
HandleSearch ==
    LET sid == dash.visits + 1
        fresh == dash.sessionId = 0
        d == [dash EXCEPT !.sessionId = sid,
                          !.data = IF fresh THEN NoData ELSE @,
                          !.status = IF fresh THEN "processing" ELSE @,
                          !.inst = IF fresh THEN @ + 1 ELSE @,
                          !.effect = @ + 1,
                          !.pending = @ - 1,
                          !.visits = sid]
        viewer == Processing(d.data, d.status)
    IN /\ dash.pending > 0
       /\ dash.issued < MaxPolls
       /\ dash' = [d EXCEPT !.interval = d.effect, !.issued = @ + 1, !.viewer = viewer]
       /\ polls' = polls \cup {Request(d)}
       /\ conns' = IF viewer THEN OpenSource(conns, sid) ELSE conns
       /\ logs' = IF fresh THEN <<>> ELSE logs
       /\ UNCHANGED <<chat, arg, val, calls, source, unwrap, backend, attach, mic>>
\* App.tsx lines 23-25: setSessionId(null) unmounts the Dashboard; its
\* cleanups clear the interval and close the EventSource
HandleBack ==
    /\ dash.sessionId # 0
    /\ dash' = [dash EXCEPT !.sessionId = 0, !.data = NoData, !.status = "processing",
                            !.interval = 0, !.viewer = FALSE]
    /\ conns' = Closed(conns)
    /\ logs' = <<>>
    /\ UNCHANGED <<chat, arg, val, calls, source, unwrap, polls, backend, attach, mic>>
\* Dashboard.tsx line 87: the interval fires and calls fetchData
FetchData ==
    /\ dash.interval # 0
    /\ dash.issued < MaxPolls
    /\ dash' = [dash EXCEPT !.issued = @ + 1]
    /\ polls' = polls \cup {Request(dash)}
    /\ UNCHANGED <<chat, arg, val, calls, logs, source, unwrap, backend, conns,
                   attach, mic>>
\* the backend finishes an analysis
Finish(sid, status) ==
    /\ sid <= dash.visits
    /\ backend[sid] = "processing"
    /\ backend' = [backend EXCEPT ![sid] = status]
    /\ UNCHANGED <<chat, arg, val, calls, logs, source, unwrap, dash, polls, conns,
                   attach, mic>>
\* the backend answers a request with the status it holds
Answer(r) ==
    /\ ~r.served
    /\ polls' = (polls \ {r}) \cup {[r EXCEPT !.served = TRUE, !.status = backend[r.sid]]}
    /\ UNCHANGED <<chat, arg, val, calls, logs, source, unwrap, dash, backend, conns,
                   attach, mic>>
\* Dashboard.tsx lines 73-80: the await of fetchData resumes with the
\* response: setData, setStatus, and clearInterval of the interval of the
\* effect the request belongs to when the status is terminal.  The render
\* that follows shows the processing view or the report (lines 92-110), and
\* the LogViewer is mounted, handed data.logs, or unmounted with it.  The
\* setters of a Dashboard that was unmounted do nothing.  The response
\* carries the first k lines of the log.
Resolve(r, k) ==
    /\ r.served
    /\ polls' = polls \ {r}
    /\ IF r.inst # dash.inst \/ dash.sessionId = 0
       THEN UNCHANGED <<dash, conns, logs>>
       ELSE LET viewer == r.status = "processing" IN
            /\ dash' = [dash EXCEPT
                          !.data = [sid |-> r.sid, status |-> r.status,
                                    logs |-> LogLines(r.sid, k)],
                          !.status = r.status,
                          !.interval = IF r.status \in Terminal /\ @ = r.effect
                                       THEN 0 ELSE @,
                          !.viewer = viewer]
            /\ logs' = IF ~viewer THEN <<>>
                       ELSE InitialLogs(IF dash.viewer THEN logs ELSE <<>>,
                                        LogLines(r.sid, k))
            /\ conns' = IF dash.viewer = viewer THEN conns
                        ELSE IF viewer THEN OpenSource(conns, dash.sessionId)
                        ELSE Closed(conns)
    /\ UNCHANGED <<chat, arg, val, calls, source, unwrap, backend, attach, mic>>
\* Dashboard.tsx lines 82-84: the request fails and fetchData logs the error
Reject(r) ==
    /\ polls' = polls \ {r}
    /\ UNCHANGED <<chat, arg, val, calls, logs, source, unwrap, dash, backend, conns,
                   attach, mic>>
\* LogViewer.tsx lines 63-77 and 408-410: an open EventSource delivers the
\* next line of the log and onmessage appends its entry
StreamMessage(c) ==
    /\ conns[c].open
    /\ conns[c].sent < MaxLogs
    /\ Len(logs) < MaxLogs
    /\ logs' = Append(logs, LogLine(conns[c].sid, conns[c].sent + 1))
    /\ conns' = [conns EXCEPT ![c].sent = @ + 1]
    /\ UNCHANGED <<chat, arg, val, calls, source, unwrap, dash, polls, backend,
                   attach, mic>>
\* LogViewer.tsx lines 79-82 and 411: onerror closes the source
StreamError(c) ==
    /\ conns[c].open
    /\ conns' = [conns EXCEPT ![c].open = FALSE, ![c].erred = TRUE]
    /\ UNCHANGED <<chat, arg, val, calls, logs, source, unwrap, dash, polls, backend,
                   attach, mic>>
DashNext ==
    \/ OnSearch
    \/ HandleSearch
    \/ HandleBack
    \/ FetchData
    \/ \E sid \in Analyses, status \in Terminal : Finish(sid, status)
    \/ \E r \in polls : Answer(r)
    \/ \E r \in polls, k \in 0..MaxLogs : Resolve(r, k)
    \/ \E r \in polls : Reject(r)
    \/ \E c \in 1..Len(conns) : StreamMessage(c)
    \/ \E c \in 1..Len(conns) : StreamError(c)
SpecDash == Init /\ [][DashNext]_vars
\* the Dashboard with the first request of each polling effect only, and
\* responses without log lines
ViewerNext ==
    \/ OnSearch
    \/ HandleSearch
    \/ HandleBack
    \/ \E sid \in Analyses : Finish(sid, "completed")
    \/ \E r \in polls : Answer(r)
    \/ \E r \in polls : Resolve(r, 0)
    \/ \E c \in 1..Len(conns) : StreamMessage(c)
    \/ \E c \in 1..Len(conns) : StreamError(c)
SpecViewer == Init /\ [][ViewerNext]_vars

\* ------------------------------------------------------------- ImageUpload
\* A file is known by whether it ends up in newImages ("ok") or is skipped:
\* larger than 5 MB, or refused by the storage ("bad").  An image is known by
\* the uploadFiles call that added it.
maxImages == 5
FileKinds == {"ok", "bad"}
FileLists == UNION {[1..n -> FileKinds] : n \in 1..MaxFiles}
\* Array.prototype.slice(0, end): a negative end counts from the end
Slice0(files, end) ==
    LET n == Len(files)
        e == IF end < 0 THEN (IF n + end < 0 THEN 0 ELSE n + end)
             ELSE (IF end > n THEN n ELSE end)
    IN SubSeq(files, 1, e)
\* ImageUpload.tsx lines 44-82: the loop over filesToProcess and the
\* setImages(prev => [...prev, ...newImages]) after it
FinishedImages(prev, u) ==
    prev \o [j \in 1..Len(SelectSeq(u.files, LAMBDA f : f = "ok")) |-> u.id]
\* ImageUpload.tsx lines 31-42: uploadFiles up to its first await; files is
\* not empty; images.length is that of the render the callback belongs to,
\* the latest one for a call through the ref or from the file input
UploadFiles(files) ==
    LET remainingSlots == maxImages - Len(images)
        filesToProcess == Slice0(files, remainingSlots)
    IN /\ uploads.started < MaxUploads
       /\ uploads' = [isUploading |-> TRUE,
                      started |-> uploads.started + 1,
                      running |-> uploads.running \cup
                                     {[id |-> uploads.started + 1, files |-> filesToProcess]}]
       /\ UNCHANGED <<chat, arg, val, calls, logs, source, unwrap, board, images, mic>>
\* ImageUpload.tsx lines 86-92 and 177-178: the file input, whose button is
\* disabled while isUploading is set or the list is full
HandleFileSelect(files) ==
    /\ ~uploads.isUploading
    /\ Len(images) < maxImages
    /\ UploadFiles(files)
\* ChatWidget.tsx lines 473-494: a paste of image files anywhere in the
\* document calls addFiles through the ref
HandlePaste(files) == UploadFiles(files)
\* ImageUpload.tsx lines 78-83: the uploads of a call are through
FinishUpload(u) ==
    /\ images' = FinishedImages(images, u)
    /\ uploads' = [uploads EXCEPT !.isUploading = FALSE, !.running = @ \ {u}]
    /\ UNCHANGED <<chat, arg, val, calls, logs, source, unwrap, board, mic>>
\* ImageUpload.tsx lines 94-100
RemoveImage(index) ==
    /\ images' = [j \in 1..(Len(images) - 1) |->
                     IF j < index THEN images[j] ELSE images[j + 1]]
    /\ UNCHANGED <<chat, arg, val, calls, logs, source, unwrap, board, uploads, mic>>
\* ImageUpload.tsx lines 102-106; called when a message is sent and when a
\* new chat is started (ChatWidget.tsx lines 452 and 553)
ClearAll ==
    /\ images' = <<>>
    /\ UNCHANGED <<chat, arg, val, calls, logs, source, unwrap, board, uploads, mic>>
AttachNext ==
    \/ \E files \in FileLists : HandleFileSelect(files)
    \/ \E files \in FileLists : HandlePaste(files)
    \/ \E u \in uploads.running : FinishUpload(u)
    \/ \E index \in 1..Len(images) : RemoveImage(index)
    \/ ClearAll
SpecAttach == Init /\ [][AttachNext]_vars

\* -------------------------------------------------------------- VoiceInput
\* mic.pc is the callback of the transcription that is still to run: the
\* recorder's onstop, the reader's onloadend, or the continuation of
\* generateContent; "none" when there is none.  mic.heard are the texts
\* handed to onTranscriptionComplete.
Transcripts == {<<>>, <<Space>>, <<"a">>, <<Space, "b">>}
\* VoiceInput.tsx lines 15-42: the microphone button, shown when neither
\* isProcessing nor isRecording is set
MicStart(granted) ==
    /\ ~mic.isProcessing /\ ~mic.isRecording
    /\ mic.takes < MaxTakes
    /\ mic' = IF granted THEN [mic EXCEPT !.isRecording = TRUE, !.takes = @ + 1]
              ELSE [mic EXCEPT !.takes = @ + 1]
    /\ UNCHANGED <<chat, arg, val, calls, logs, source, unwrap, board, attach>>
\* VoiceInput.tsx lines 44-50: the stop button, shown while isRecording
StopRecording ==
    /\ ~mic.isProcessing /\ mic.isRecording
    /\ mic' = [mic EXCEPT !.isRecording = FALSE, !.isProcessing = TRUE,
                          !.pc = "onstop"]
    /\ UNCHANGED <<chat, arg, val, calls, logs, source, unwrap, board, attach>>
\* VoiceInput.tsx lines 28-31 and 52-67, 86-89: onstop calls
\* transcribeAudio; without an API key it throws inside the try and the
\* catch clears isProcessing, with one it starts the FileReader and returns
OnStop(apiKey) ==
    /\ mic.pc = "onstop"
    /\ mic' = IF apiKey THEN [mic EXCEPT !.pc = "onloadend"]
              ELSE [mic EXCEPT !.isProcessing = FALSE, !.pc = "none"]
    /\ UNCHANGED <<chat, arg, val, calls, logs, source, unwrap, board, attach>>
\* VoiceInput.tsx lines 67-70: onloadend runs after transcribeAudio has
\* returned, so its try no longer guards it; after a read error
\* reader.result is null and line 68 throws
OnLoadEnd(read) ==
    /\ mic.pc = "onloadend"
    /\ mic' = IF read THEN [mic EXCEPT !.pc = "generateContent"]
              ELSE [mic EXCEPT !.pc = "none"]
    /\ UNCHANGED <<chat, arg, val, calls, logs, source, unwrap, board, attach>>
\* VoiceInput.tsx lines 70-84: generateContent resolves
Generated(text) ==
    /\ mic.pc = "generateContent"
    /\ mic' = [mic EXCEPT !.isProcessing = FALSE, !.pc = "none",
                          !.heard = IF text # <<>> THEN Append(@, Trim(text)) ELSE @]
    /\ UNCHANGED <<chat, arg, val, calls, logs, source, unwrap, board, attach>>
\* VoiceInput.tsx line 70: generateContent rejects; the rejection leaves the
\* async callback of line 67, which nothing awaits
GenerateFailed ==
    /\ mic.pc = "generateContent"
    /\ mic' = [mic EXCEPT !.pc = "none"]
    /\ UNCHANGED <<chat, arg, val, calls, logs, source, unwrap, board, attach>>
MicNext ==
    \/ \E granted \in BOOLEAN : MicStart(granted)
    \/ StopRecording
    \/ \E apiKey \in BOOLEAN : OnStop(apiKey)
    \/ \E read \in BOOLEAN : OnLoadEnd(read)
    \/ \E text \in Transcripts : Generated(text)
    \/ GenerateFailed
SpecMic == Init /\ [][MicNext]_vars

\* ------------------------------------------------------------------ claims
RunningSteps(m) == {j \in 1..Len(m.thoughts) : m.thoughts[j].status = "running"}
IsRunningThought(t) == t.type = "thought" /\ t.status = "running"
\* the step lists of a send's assistant message before and after a step
OldSteps(s) == Get(messages, sends[s].id).thoughts
NewSteps(s) == Get(messages', sends[s].id).thoughts
\* the step that was made is a read of send s whose chunk carried an event of
\* one of the given types, and the assistant message of s is in the list
ReadOf(s, types) ==
    /\ lastAct'.op = "read"
    /\ lastAct'.s = s
    /\ lastAct'.ev.type \in types
    /\ Has(messages, sends[s].id)
    /\ Has(messages', sends[s].id)

\* C1: whatever events the read loop is fed, the assistant message's step
\* list holds at most one step with status 'running'.
C1_SingleRunningStep ==
    \A i \in 1..Len(messages) : Cardinality(RunningSteps(messages[i])) <= 1

\* the message list right after the handleSend of the first turn
TurnStart(s) ==
    << Msg(sends[s].id - 1, "user", <<"q">>, FALSE, <<>>),
       Msg(sends[s].id, "assistant", <<>>, TRUE, <<>>) >>

\* C2: however the response body is cut into chunks, once all of it has been
\* read the message list and the accumulated text are what reading the body
\* as one chunk gives; a record cut in two is applied exactly once.
C2_ChunkFraming ==
    \A s \in Turns :
        (sends[s].pc = "reading" /\ sends[s].body # <<>> /\ sends[s].wire = <<>>)
            => [msgs |-> messages, ac |-> sends[s].ac]
                 = ApplyChunk([msgs |-> TurnStart(s), ac |-> <<>>], sends[s].id,
                              sends[s].body)

\* C3: a tool_end event completes the most recently pushed running tool
\* step and stores the output in it, also when that step is not the last.
C3_ToolEndMatching ==
    [][\A s \in Turns :
          ReadOf(s, {"tool_end"}) =>
             LET old == OldSteps(s)
                 new == NewSteps(s)
                 R == {j \in 1..Len(old) :
                          old[j].type = "tool" /\ old[j].status = "running"}
             IN R # {} =>
                   LET j == CHOOSE x \in R : \A y \in R : y <= x
                   IN /\ Len(new) = Len(old)
                      /\ new[j].status = "completed"
                      /\ new[j].toolOutput = lastAct'.ev.p]_vars

\* C4: when the stream ends normally and handleSend has finalized the
\* message (isStreaming = false), no step of the message is 'running'.
C4_TerminalFinalization ==
    \A s \in Turns :
        (sends[s].pc = "done" /\ Has(messages, sends[s].id))
            => /\ ~Get(messages, sends[s].id).isStreaming
               /\ RunningSteps(Get(messages, sends[s].id)) = {}

\* C5: a chunk of a stream that was started before the latest session
\* switch changes no message of the list now shown.
C5_NoBleedAfterSwitch ==
    [][\A s \in Turns :
          (lastAct'.op = "read" /\ lastAct'.s = s /\ sends[s].epoch # epoch)
             => messages' = messages]_vars
C5_Witness ==
    /\ lastAct.op = "read"
    /\ lastAct.ev.type = "token"
    /\ sends[lastAct.s].epoch # epoch
    /\ mounted
    /\ ~Has(messages, sends[lastAct.s].id)
    /\ \E i \in 1..Len(messages) : messages[i].isStreaming

\* C6: after a session switch or the teardown of the widget no read is
\* served to, and no further read issued by, a stream that was open then.
C6_StreamRelease ==
    lastAct.op = "read" => sends[lastAct.s].opened = epoch

\* C7: at most one response stream is open (requested or being read) at
\* any time.
C7_SingleOutstandingTurn ==
    Cardinality({s \in Turns : Open(s)}) <= 1

\* C8: a plan, query_rewrite, image_analysis or execution event replaces a
\* last step that is a running thought by one completed step of its kind,
\* keeping the step count; otherwise it appends exactly one such step.
C8_ReplaceNotAppend ==
    [][\A s \in Turns :
          ReadOf(s, TraceTypes) =>
             LET old == OldSteps(s)
                 new == NewSteps(s)
             IN /\ Last(new).type = lastAct'.ev.type
                /\ Last(new).status = "completed"
                /\ IF Len(old) > 0 /\ IsRunningThought(Last(old))
                   THEN /\ Len(new) = Len(old)
                        /\ SubSeq(new, 1, Len(old) - 1) = SubSeq(old, 1, Len(old) - 1)
                   ELSE /\ Len(new) = Len(old) + 1
                        /\ SubSeq(new, 1, Len(old)) = old]_vars
C8_Witness ==
    /\ lastAct.op = "read"
    /\ lastAct.ev.type = "plan"
    /\ Has(messages, sends[lastAct.s].id)
    /\ LET steps == Get(messages, sends[lastAct.s].id).thoughts
       IN /\ lastAct.before = Len(steps)
          /\ Len(steps) = 2
          /\ steps[1].status = "running"
          /\ steps[2].type = "plan"

\* C9: a token event completes the last step if and only if that step is a
\* running thought; a last step of another kind keeps its status.
C9_TokenSideEffect ==
    [][\A s \in Turns :
          (ReadOf(s, {"token"}) /\ Len(OldSteps(s)) > 0) =>
             LET old == Last(OldSteps(s))
                 new == Last(NewSteps(s))
             IN /\ Len(NewSteps(s)) = Len(OldSteps(s))
                /\ IF IsRunningThought(old)
                   THEN new.status = "completed"
                   ELSE new.status = old.status]_vars

\* C10: while the assistant message is streaming its content is the
\* concatenation, in arrival order, of the token contents received so far,
\* and every value of the content is a prefix of the next.
C10_MonotonicText ==
    [][\A s \in Turns :
          (Has(messages', sends'[s].id) /\ Get(messages', sends'[s].id).isStreaming)
             => /\ Get(messages', sends'[s].id).content = sends'[s].rx
                /\ (Has(messages, sends'[s].id) /\ Get(messages, sends'[s].id).isStreaming)
                      => IsPrefix(Get(messages, sends'[s].id).content,
                                  Get(messages', sends'[s].id).content)]_vars
C10_Witness ==
    /\ lastAct.op = "read"
    /\ lastAct.ev.type = "token"
    /\ Has(messages, sends[lastAct.s].id)
    /\ Get(messages, sends[lastAct.s].id).isStreaming
    /\ Get(messages, sends[lastAct.s].id).content = <<"a", "b">>

\* a text occurs inside another
IsInfix(s, t) ==
    \E i \in 0..(Len(t) - Len(s)) : SubSeq(t, i + 1, i + Len(s)) = s

\* C11: when reader.read rejects after token events were applied, the text
\* accumulated from those tokens is still in the assistant message's content
\* once the failure has been handled.
C11_PartialTextSurvives ==
    [][\A s \in Turns :
          (/\ sends[s].pc = "reading"
           /\ sends'[s].pc = "failed"
           /\ sends[s].rx # <<>>
           /\ Has(messages', sends[s].id))
             => IsInfix(sends[s].rx, Get(messages', sends[s].id).content)]_vars

\* C12: when the request fails (non-success status, no reader) or the
\* transport raises while reading, handleSend leaves isLoading false and the
\* turn's placeholder, from then on, not streaming and showing the fixed
\* error string.
C12_FailedTurn ==
    [][\A s \in Turns :
          /\ (Open(s) /\ sends'[s].pc = "failed") => isLoading' = FALSE
          /\ (sends'[s].pc = "failed" /\ Has(messages', sends'[s].id))
                => /\ ~Get(messages', sends'[s].id).isStreaming
                   /\ Get(messages', sends'[s].id).content = ErrorText]_vars
C12_Witness ==
    \E s \in Turns :
        /\ sends[s].pc = "failed"
        /\ ~isLoading
        /\ Has(messages, sends[s].id)
        /\ Get(messages, sends[s].id).content = ErrorText
        /\ ~Get(messages, sends[s].id).isStreaming
        /\ Len(Get(messages, sends[s].id).thoughts) > 0

\* C13: a placeholder is created streaming; isStreaming goes from true to
\* false only when its stream completes or fails, it is false once
\* handleSend has returned, and it never becomes true again.
C13_StreamingOneWay ==
    [][\A i \in 1..Len(messages') :
          LET id == messages'[i].id
              new == messages'[i]
          IN /\ (\E s \in Turns : sends[s].pc = "idle" /\ sends'[s].pc = "fetching"
                                     /\ sends'[s].id = id)
                   => new.isStreaming
             /\ (Has(messages, id) /\ ~Get(messages, id).isStreaming)
                   => ~new.isStreaming
             /\ (Has(messages, id) /\ Get(messages, id).isStreaming /\ ~new.isStreaming)
                   => \E s \in Turns : /\ sends[s].id = id
                                         /\ Open(s)
                                         /\ sends'[s].pc \in {"done", "failed"}
             /\ (\E s \in Turns : sends'[s].pc \in {"done", "failed"} /\ sends'[s].id = id)
                   => ~new.isStreaming]_vars
C13_Witness ==
    \E s \in Turns :
        /\ sends[s].pc = "done"
        /\ Has(messages, sends[s].id)
        /\ ~Get(messages, sends[s].id).isStreaming
        /\ Get(messages, sends[s].id).content = <<"a">>
        /\ \E r \in Turns : r # s /\ sends[r].pc = "reading"
                              /\ Get(messages, sends[r].id).isStreaming

\* the message list and the accumulated text a send's read loop works on
Cur(s) == [msgs |-> messages, ac |-> sends[s].ac]
RunningTools(steps) ==
    {j \in 1..Len(steps) : steps[j].type = "tool" /\ steps[j].status = "running"}

\* C14: a tool_end event arriving when no tool step is running leaves the
\* messages and the accumulated text as they were, creates no step, and the
\* loop goes on: an event after it has the effect it has without it.
C14_ToolPairing ==
    [][\A s \in Turns :
          (ReadOf(s, {"tool_end"}) /\ RunningTools(OldSteps(s)) = {})
             => /\ messages' = messages
                /\ sends'[s].ac = sends[s].ac
                /\ sends'[s].pc = "reading"
                /\ \A e \in Events :
                      ApplyChunk(Cur(s), sends[s].id,
                                 Encode([type |-> "tool_end", p |-> "a"]) \o Encode(e))
                        = ApplyChunk(Cur(s), sends[s].id, Encode(e))]_vars
C14_Witness ==
    /\ lastAct.op = "read"
    /\ lastAct.ev.type = "tool_end"
    /\ sends[lastAct.s].pc = "reading"
    /\ Has(messages, sends[lastAct.s].id)
    /\ LET steps == Get(messages, sends[lastAct.s].id).thoughts
       IN /\ Len(steps) = 2
          /\ lastAct.before = 2
          /\ RunningTools(steps) = {}
          /\ steps[1].type = "tool"
          /\ steps[2].type = "thought"

\* C15: a 'data: ' line whose payload is not valid JSON changes no message
\* and not the accumulated text, and does not end the read loop; a valid
\* line after it, in the same chunk or a later one, has its usual effect.
C15_MalformedLine ==
    [][\A s \in Turns :
          (lastAct'.op = "read" /\ lastAct'.s = s /\ lastAct'.ev = NoEvent)
             => /\ messages' = messages
                /\ sends'[s].ac = sends[s].ac
                /\ sends'[s].pc = "reading"
                /\ \A e \in Events :
                      ApplyChunk(Cur(s), sends[s].id, BadRecord \o Encode(e))
                        = ApplyChunk(Cur(s), sends[s].id, Encode(e))]_vars
C15_Witness ==
    /\ lastAct.op = "read"
    /\ lastAct.ev = NoEvent
    /\ sends[lastAct.s].pc = "reading"
    /\ Has(messages, sends[lastAct.s].id)
    /\ Get(messages, sends[lastAct.s].id).content = <<"a">>
    /\ Len(Get(messages, sends[lastAct.s].id).thoughts) = 1

\* C16: an event of a type the dispatch does not know changes no message
\* and not the accumulated text, and the events after it are processed as
\* they are without it.
C16_UnknownType ==
    [][\A s \in Turns :
          (lastAct'.op = "read" /\ lastAct'.s = s /\ lastAct'.ev.type = "other")
             => /\ messages' = messages
                /\ sends'[s].ac = sends[s].ac
                /\ sends'[s].pc = "reading"
                /\ \A e \in Events :
                      ApplyChunk(Cur(s), sends[s].id,
                                 Encode([type |-> "other", p |-> "a"]) \o Encode(e))
                        = ApplyChunk(Cur(s), sends[s].id, Encode(e))]_vars
C16_Witness ==
    /\ lastAct.op = "read"
    /\ lastAct.ev.type = "other"
    /\ sends[lastAct.s].pc = "reading"
    /\ Has(messages, sends[lastAct.s].id)
    /\ Get(messages, sends[lastAct.s].id).isStreaming
    /\ Get(messages, sends[lastAct.s].id).content = <<"b">>
    /\ Len(Get(messages, sends[lastAct.s].id).thoughts) = 2

\* C17: for every payload, applying safeParseJSON to its own result gives
\* that result again.
C17_IdempotentNormalization ==
    [][calls >= 1 => val' = val]_vars

\* C18: safeParseJSON never throws: a string that is not valid JSON comes
\* back unchanged, and a parse failure in a recursive call is returned as a
\* value too.
C18_NeverThrows ==
    [][/\ val' # Thrown
       /\ (val.k = "string" /\ JSONParseText(val.s) = Thrown) => val' = val]_vars
C18_Witness ==
    /\ calls = 1
    /\ arg = Enc(Val("string", <<"{", "x">>))
    /\ val = Val("string", <<"{", "x">>)

Malformed(t) == t.type \in {"null", "scalar"}
WellFormed(t) == ~Malformed(t)
MalformedCount(h) ==
    Cardinality({<<i, j>> \in (1..Len(h)) \X (1..MaxStored + 1) :
                    j <= Len(h[i].thoughts) /\ Malformed(h[i].thoughts[j])})

\* C20: when exactly one stored step of a session's history is malformed,
\* loadSessionMessages still shows the session: currentSessionId is the
\* requested session and every message and every other step is in the list.
C20_LoadToleratesBadStep ==
    (lastAct.op = "load" /\ MalformedCount(stored) = 1) =>
        /\ currentSessionId = lastAct.s
        /\ Len(messages) = Len(stored)
        /\ \A i \in 1..Len(stored) :
              /\ messages[i].id = stored[i].id
              /\ messages[i].content = stored[i].content
              /\ SelectSeq(messages[i].thoughts, WellFormed)
                   = LET kept == SelectSeq(stored[i].thoughts, WellFormed)
                     IN [j \in 1..Len(kept) |-> HydrateStep(kept[j])]

\* C21: when loading a session's history fails entirely (the response is not
\* ok, or the fetch or its json() throws), the widget shows an empty message
\* list and isLoading is false again.
C21_UnreadableSession ==
    (lastAct.op = "loadfail" /\ mounted) => (messages = <<>> /\ ~isLoading)

\* C22: every handleSend that issues a request, typed or started by a voice
\* transcription, sends the session id of the list it appends its user
\* message and its placeholder to: the request's session_id is the
\* currentSessionId at that moment.
C22_TurnAttribution ==
    [][\A s \in Turns :
          (sends[s].pc = "idle" /\ sends'[s].pc = "fetching") =>
              /\ Has(messages', sends'[s].id)
              /\ sends'[s].sid = currentSessionId']_vars

\* the events a response body carries, in order
RECURSIVE EventsOfLines(_)
EventsOfLines(lines) ==
    IF lines = <<>> THEN <<>>
    ELSE LET l == Head(lines)
             r == JSONParse(Slice6(l))
         IN (IF StartsWithData(l) /\ r.ok THEN <<[type |-> r.type, p |-> r.p]>> ELSE <<>>)
            \o EventsOfLines(Tail(lines))
EventsOf(body) == EventsOfLines(Split(body))
OfType(evs, type) == SelectSeq(evs, LAMBDA e : e.type = type)

\* C23: when every tool_start of a stream is directly followed by its
\* tool_end and tokens follow, the message at the end of the stream has one
\* tool step per tool_start, in stream order, each completed and carrying the
\* output of its tool_end, and its content is the tokens' contents in order.
C23_PairedTools ==
    [][(sends[1].pc = "reading" /\ sends'[1].pc = "done") =>
         LET evs == EventsOf(sends[1].body)
             starts == OfType(evs, "tool_start")
             ends == OfType(evs, "tool_end")
             tokens == OfType(evs, "token")
             m == Get(messages', sends[1].id)
         IN /\ Has(messages', sends[1].id)
            /\ ~m.isStreaming
            /\ Len(m.thoughts) = Len(starts)
            /\ \A i \in 1..Len(starts) :
                  /\ m.thoughts[i].type = "tool"
                  /\ m.thoughts[i].toolName = ToolOf(starts[i].p)
                  /\ m.thoughts[i].status = "completed"
                  /\ m.thoughts[i].toolOutput = ends[i].p
            /\ m.content = [i \in 1..Len(tokens) |-> tokens[i].p]]_vars
\* a finished turn with two paired tools of different outputs and an answer
C23_Witness ==
    /\ sends[1].pc = "done"
    /\ Has(messages, sends[1].id)
    /\ LET m == Get(messages, sends[1].id)
       IN /\ Len(m.thoughts) = 2
          /\ m.thoughts[1].toolOutput # m.thoughts[2].toolOutput
          /\ m.thoughts[2].status = "completed"
          /\ m.content # <<>>

\* C24: grouping the message list into turns gives turns of exactly one user
\* message and at most one assistant message each, and the turns' messages
\* in order are the message list: nothing lost, duplicated or reordered.
C24_TurnShape ==
    LET turns == GroupTurns(messages) IN
    /\ \A i \in 1..Len(turns) :
          Len(turns[i].user) = 1 /\ Len(turns[i].assistant) <= 1
    /\ RenderOrder(turns) = messages

\* C25: a thought event appends its content to the last step when that step
\* is a running thought, and otherwise pushes one new running thought step
\* holding its content; every other step stays as it is.  Step by step, a
\* run of thought events so builds one thought step whose content is their
\* contents in arrival order.
C25_ThoughtMerging ==
    [][\A s \in Turns :
          ReadOf(s, {"thought"}) =>
             LET old == OldSteps(s)
                 new == NewSteps(s)
                 p == lastAct'.ev.p
             IN IF Len(old) > 0 /\ IsRunningThought(Last(old))
                THEN /\ Len(new) = Len(old)
                     /\ SubSeq(new, 1, Len(old) - 1) = SubSeq(old, 1, Len(old) - 1)
                     /\ IsRunningThought(Last(new))
                     /\ Last(new).content = Last(old).content \o <<p>>
                ELSE /\ Len(new) = Len(old) + 1
                     /\ SubSeq(new, 1, Len(old)) = old
                     /\ IsRunningThought(Last(new))
                     /\ Last(new).content = <<p>>]_vars
\* three thought events in a row have built one step
C25_Witness ==
    /\ lastAct.op = "read"
    /\ lastAct.ev = [type |-> "thought", p |-> "a"]
    /\ Has(messages, sends[lastAct.s].id)
    /\ LET steps == Get(messages, sends[lastAct.s].id).thoughts
       IN /\ Len(steps) = 1
          /\ lastAct.before = 1
          /\ IsRunningThought(steps[1])
          /\ steps[1].content = <<"b", "a", "a">>

\* C26: a tool_start event appends exactly one running tool step at the end
\* of the step list and leaves every step that was there, a thought that is
\* still running included, as it was in kind, content and status.
C26_ToolStartAppendOnly ==
    [][\A s \in Turns :
          ReadOf(s, {"tool_start"}) =>
             LET old == OldSteps(s)
                 new == NewSteps(s)
             IN /\ Len(new) = Len(old) + 1
                /\ SubSeq(new, 1, Len(old)) = old
                /\ Last(new).type = "tool"
                /\ Last(new).status = "running"]_vars
\* a tool_start arrived while a thought was running, and the thought still is
C26_Witness ==
    /\ lastAct.op = "read"
    /\ lastAct.ev.type = "tool_start"
    /\ Has(messages, sends[lastAct.s].id)
    /\ LET steps == Get(messages, sends[lastAct.s].id).thoughts
       IN /\ Len(steps) = 2
          /\ lastAct.before = 1
          /\ IsRunningThought(steps[1])
          /\ steps[2].type = "tool"
          /\ steps[2].status = "running"

\* C27: every event of a stream changes at most one message, the assistant
\* placeholder its handleSend call created; the user messages and the other
\* turns' assistant messages keep their content, steps and isStreaming, also
\* while two streams are open.
C27_OneStreamOneMessage ==
    [][\A s \in Turns :
          (lastAct'.op = "read" /\ lastAct'.s = s /\ Len(messages') = Len(messages)) =>
             LET changed == {i \in 1..Len(messages) : messages'[i] # messages[i]}
             IN /\ Cardinality(changed) <= 1
                /\ \A i \in changed :
                      /\ messages[i].role = "assistant"
                      /\ messages[i].id = sends[s].id]_vars

\* C28: the thought handler and the tool_end handler leave the message state
\* they are applied to as it was, so applying a handler with the same event
\* a second time to that same state gives what applying it once gives.
C28_HandlersKeepInput ==
    \A s \in Turns :
       (sends[s].pc = "reading" /\ Has(messages, sends[s].id)) =>
          LET m == Get(messages, sends[s].id) IN
          \A p \in PayloadChars :
             LET thought == [type |-> "thought", p |-> p]
                 tool_end == [type |-> "tool_end", p |-> p]
             IN /\ ThoughtUpdatePrev(m, thought) = m
                /\ ThoughtUpdate(ThoughtUpdatePrev(m, thought), thought)
                     = ThoughtUpdate(m, thought)
                /\ ToolEndUpdatePrev(m, tool_end) = m
                /\ ToolEndUpdate(ToolEndUpdatePrev(m, tool_end), tool_end)
                     = ToolEndUpdate(m, tool_end)

\* C29: when the transport of a request that handleSend issued ends its
\* stream or fails, handleSend eventually has returned with isLoading false
\* and, if the placeholder is still in the list, the placeholder not
\* streaming: no placeholder stays streaming for ever.
C29_TurnLiveness ==
    Open(1) ~> /\ sends[1].pc \in {"done", "failed"}
               /\ ~isLoading
               /\ Has(messages, sends[1].id)
                     => ~Get(messages, sends[1].id).isStreaming
\* a stream has ended without delivering an answer while a session load is
\* pending, and its placeholder is shown, empty and no longer streaming
C29_Witness ==
    /\ sends[1].pc = "done"
    /\ loads # {}
    /\ ~isLoading
    /\ Has(messages, sends[1].id)
    /\ Get(messages, sends[1].id).content = <<>>
    /\ ~Get(messages, sends[1].id).isStreaming

\* the legacy type the text of a message calls for
LegacyClass(text) ==
    IF Includes(text, "ERROR") THEN "error"
    ELSE IF Includes(text, "Tool Usage:") THEN "tool"
    ELSE IF Includes(text, "Insight:") THEN "thought"
    ELSE "info"

\* C30: every message the LogViewer's EventSource delivers appends exactly
\* one entry, in arrival order: a JSON object with a type field is the entry
\* as it is; anything else becomes a legacy entry of the text, of type
\* 'error' if the text contains "ERROR", else 'tool' if it contains
\* "Tool Usage:", else 'thought' if it contains "Insight:", else 'info'.
C30_LogDecoding ==
    /\ Len(logs) = Len(source.delivered)
    /\ \A i \in 1..Len(logs) :
          LET data == source.delivered[i]
              parsed == LogParse(data)
          IN IF parsed.k = "object" /\ parsed.v.type # NoType
             THEN logs[i] = parsed.v
             ELSE /\ logs[i].type = LegacyClass(data)
                  /\ logs[i].agent = "System"
                  /\ logs[i].message = data

\* C31: safeParseJSON returns on every payload; each nested call is made on a
\* string strictly shorter than the one its caller was given, and there are
\* never more nested calls than the payload has layers of JSON encoding
RECURSIVE Layers(_)
Layers(v) ==
    IF v.k # "string" THEN 0
    ELSE LET parsed == JSONParseText(v.s) IN
         IF parsed = Thrown THEN 0 ELSE 1 + Layers(parsed)
NestedCall == unwrap'.pc = "call" /\ unwrap'.depth = unwrap.depth + 1
C31_ShorterCalls ==
    /\ unwrap'.pc = "call" =>
           /\ NestedCall
           /\ unwrap.input.k = "string" /\ unwrap'.input.k = "string"
           /\ Len(unwrap'.input.s) < Len(unwrap.input.s)
           /\ unwrap'.depth <= Layers(arg)
    /\ unwrap'.pc = "returned" => unwrap'.result = safeParseJSON(arg)
C31_Terminates == [][C31_ShorterCalls]_vars /\ <>(unwrap.pc = "returned")
C31_Witness ==
    /\ unwrap.pc = "returned"
    /\ unwrap.depth = 1
    /\ Layers(arg) = MaxEnc
    /\ unwrap.result.k = "array"

\* C32: through every step of a stream a step that is completed stays in the
\* list and stays completed, and every step of the list is running or
\* completed: no handler of the stream sets 'failed'.
StatusOneWay(old, new) ==
    /\ \A j \in 1..Len(old) :
          old[j].status = "completed" =>
              (j <= Len(new) /\ new[j].status = "completed")
    /\ \A j \in 1..Len(new) : new[j].status \in {"running", "completed"}
C32_StatusOneWay ==
    [][\A i \in 1..Len(messages) :
          Has(messages', messages[i].id) =>
              StatusOneWay(messages[i].thoughts,
                           Get(messages', messages[i].id).thoughts)]_vars
\* a thought event arrived after the answer's first token had completed the
\* thought before it
C32_Witness ==
    /\ lastAct.op = "read"
    /\ lastAct.ev.type = "thought"
    /\ Has(messages, sends[lastAct.s].id)
    /\ LET m == Get(messages, sends[lastAct.s].id)
       IN /\ m.content # <<>>
          /\ Len(m.thoughts) = 2
          /\ lastAct.before = 1
          /\ m.thoughts[1].type = "thought"
          /\ m.thoughts[1].status = "completed"
          /\ m.thoughts[2].status = "running"

\* C33: a handler of the stream changes at most the last step of the list it
\* leaves, which has as many steps as before or one more; while the message
\* is streaming its step count never goes down.
C33_OnlyLastChanges ==
    [][\A s \in Turns :
          /\ (lastAct'.op = "read" /\ lastAct'.s = s
                 /\ Has(messages, sends[s].id) /\ Has(messages', sends[s].id))
               => LET old == OldSteps(s)
                      new == NewSteps(s)
                  IN /\ Len(new) \in {Len(old), Len(old) + 1}
                     /\ SubSeq(new, 1, Len(new) - 1) = SubSeq(old, 1, Len(new) - 1)
          /\ (Has(messages, sends[s].id) /\ Has(messages', sends[s].id)
                 /\ Get(messages, sends[s].id).isStreaming)
               => Len(NewSteps(s)) >= Len(OldSteps(s))]_vars
\* a token arrived while a thought before the last step was still running,
\* and that thought still is
C33_Witness ==
    /\ lastAct.op = "read"
    /\ lastAct.ev.type = "token"
    /\ Has(messages, sends[lastAct.s].id)
    /\ LET steps == Get(messages, sends[lastAct.s].id).thoughts
       IN /\ Len(steps) = 2
          /\ lastAct.before = 2
          /\ IsRunningThought(steps[1])
          /\ steps[2].type = "tool"
          /\ steps[2].status = "completed"

\* the polling Dashboard's LogViewer and the EventSource it holds
Polling == dash.sessionId # 0 /\ dash.viewer /\ conns # <<>>
Delivered(c) == LogLines(c.sid, c.sent)
\* C34: while the Dashboard polls and its LogViewer is processing, the log
\* list holds every line the LogViewer's EventSource has delivered, once
\* each and in the order of delivery, whatever logs the poll responses
\* carried.
C34_LiveEntriesKept ==
    Polling =>
        LET c == Last(conns) IN
        SelectSeq(logs, LAMBDA e : e.sid = c.sid /\ e.n <= c.sent) = Delivered(c)

\* C35: once a response with a terminal status for the current sessionId
\* has been applied, the status shown does not return to 'processing' while
\* the sessionId stays.
C35_TerminalSticky ==
    [][(/\ dash.sessionId # 0
        /\ dash.data.sid = dash.sessionId
        /\ dash.status \in Terminal
        /\ dash'.sessionId = dash.sessionId)
          => dash'.status # "processing"]_vars

\* the requests of the Dashboard shown that have not come back
InFlight == {r \in polls : r.inst = dash.inst}
\* C36: the Dashboard is never left showing 'processing' with its polling
\* stopped (no interval set, no request under way) when the backend holds a
\* terminal status for its sessionId.
C36_NotStuckProcessing ==
    ~(/\ dash.sessionId # 0
      /\ backend[dash.sessionId] \in Terminal
      /\ dash.status = "processing"
      /\ dash.interval = 0
      /\ InFlight = {})

\* C37: the data shown belongs to the current sessionId, and no step sets
\* data from a response to a request issued for another sessionId.
C37_NoStaleReport ==
    /\ [](dash.data # NoData => dash.data.sid = dash.sessionId)
    /\ [][(dash'.data # dash.data /\ dash'.data # NoData)
             => dash'.data.sid = dash'.sessionId]_vars

OpenSources == {c \in 1..Len(conns) : conns[c].open}
\* C38: at most one EventSource is open, and only for the sessionId of a
\* LogViewer that is mounted with isProcessing set; a source that reported an
\* error is closed; a change of sessionId and the unmounting of the LogViewer
\* close the source that was open; a closed source stays closed and delivers
\* nothing more.
C38_SourceLifecycle ==
    /\ [](/\ Cardinality(OpenSources) <= 1
          /\ \A c \in 1..Len(conns) :
                /\ conns[c].open =>
                      (dash.viewer /\ conns[c].sid = dash.sessionId /\ c = Len(conns))
                /\ conns[c].erred => ~conns[c].open)
    /\ [][\A c \in 1..Len(conns) :
             /\ c <= Len(conns')
             /\ ~conns[c].open => conns'[c] = conns[c]
             /\ (dash'.sessionId # dash.sessionId \/ ~dash'.viewer) => ~conns'[c].open
             /\ conns'[c].sent # conns[c].sent =>
                    logs' = Append(logs, LogLine(conns[c].sid, conns'[c].sent))]_vars
\* the sessionId changed under a LogViewer whose source had delivered a line:
\* that source is closed, and the one for the new sessionId has delivered
\* a line too
C38_Witness ==
    /\ Len(conns) = 2
    /\ conns[1] = [sid |-> 1, open |-> FALSE, sent |-> 1, erred |-> FALSE]
    /\ conns[2] = [sid |-> 2, open |-> TRUE, sent |-> 1, erred |-> FALSE]
    /\ dash.sessionId = 2
    /\ logs = <<LogLine(1, 1), LogLine(2, 1)>>

\* C39: however file selections, pastes, removeImage and clearAll
\* interleave, a paste during an upload included, the list never holds more
\* than maxImages images.
C39_AttachmentLimit == Len(images) <= maxImages

\* C40: while isProcessing is set, a callback that clears it is still to
\* run: the control is never left processing with nothing under way,
\* whether the transcription succeeds, gives no text, or fails.
C40_ReturnsToIdle == mic.isProcessing => mic.pc # "none"
====
